---- MODULE Spec2Model ----
(***************************************************************************)
(* Model of the MCP server directory sync pipeline:                        *)
(*   scripts/sync.ts            - the sync orchestrator (Spec)             *)
(*   scripts/enrichers/index.ts - the enrichment coordinator (SpecCoord)   *)
(*   scripts/enrichers/*.ts     - the source enrichers (SpecSource)        *)
(*   scripts/utils/fetch.ts     - fetchWithRetry (SpecFetch)               *)
(*   scripts/registry.ts        - the registry client                      *)
(*                                                                         *)
(* Conventions                                                             *)
(*   - a JavaScript string that is split or ordered (a server name) is a   *)
(*     sequence of one-character strings; "" is << >>.                     *)
(*   - an ISO timestamp string is << t >>, t the epoch milliseconds; the   *)
(*     empty string "" is << >> (falsy, as in JavaScript).                 *)
(*   - an optional value (repository?: ...) is a sequence of length <= 1.  *)
(*   - an object with optional keys (Enrichment) is a function whose       *)
(*     DOMAIN is the set of keys present.                                  *)
(*   - a Map is the sequence of its values in insertion order.             *)
(***************************************************************************)
EXTENDS Integers, Sequences, FiniteSets, TLC

VARIABLES
  \* ---- the world outside the process -------------------------------
  now,            \* the wall clock, epoch milliseconds (Date.now())
  serversFile,    \* data/servers.json
  syncStateFile,  \* data/sync-state.json
  runs,           \* number of sync processes started so far
  \* ---- one sync process (scripts/sync.ts, sync()) --------------------
  pc,             \* position of the process
  forceFull,      \* process.env.FULL_SYNC === "true"
  existingServers,\* Map loaded by loadServers()
  syncState,      \* result of loadSyncState(): << >> (null) or << state >>
  doFullSync,     \* shouldDoFullSync(syncState)
  since,          \* the updated_since bound given to the registry: << >> or << iso >>
  queriedAt,      \* the clock when the registry was queried
  entries,        \* the fetched registry entries
  updatedServers, \* the working Map
  enrichCalled,   \* whether enrichServers() was called in this run
  serversToEnrich,\* the list handed to enrichServers()
  queue,          \* enrichServers(): records not yet processed
  results,        \* enrichServers(): records processed
  startFile,      \* servers.json as it was when the run started
  failedAt,       \* the step that threw, "" if none
  \* ---- its call of fetchAllServers (scripts/registry.ts) -------------
  rRequests,      \* the page requests made: cursor and updated_since of each
  rPages,         \* the pages received, in order
  rAll,           \* allServers: the entries retained so far
  \* ---- one call of fetchWithRetry (scripts/utils/fetch.ts) ----------
  fPc,            \* "idle", "awaiting", "sleeping", "returned" or "thrown"
  fMaxRetries,    \* the maxRetries argument
  fBaseTimeout,   \* the baseTimeout argument
  fAttempt,       \* the loop variable attempt
  fTimers,        \* the attempts whose abort timer is armed
  fRequests,      \* the requests issued: attempt and timeout of each
  fOutcomes,      \* what each request ended with: a response or an error
  fSleeps,        \* the backoff sleeps made, in order
  fLastError,     \* lastError: << >> or << error >>
  fResult,        \* what the call returned or threw: << >> while running
  fAborted,       \* the abort controllers aborted so far, with the timer that did it
  fCancels,       \* the requests a timer cancelled: which timer, which request
  fSibling,       \* a fetch of another call running meanwhile: "pending", "done" or "aborted"
  \* ---- calls of enrichServers (scripts/enrichers/index.ts) -----------
  cPc,            \* "idle", "running" or "returned"
  cNow,           \* the wall clock of the coordinator, epoch milliseconds
  cServers,       \* the servers argument
  cOptions,       \* the options argument, a partial EnrichmentOptions
  cQueue,         \* queue: records not yet processed
  cResults,       \* results: records processed
  cTrace,         \* one entry per enrichServer call made so far
  cRun,           \* 0 before the first call, then 1 or 2
  cFirst,         \* what the first call returned
  \* ---- one call of a source enricher (scripts/enrichers/*.ts) -------
  sPc,            \* "idle", "returned" or "thrown"
  sEnricher,      \* the enricher called
  sServer,        \* its argument
  sRequests,      \* the requests it issued, with what each ended with
  sResult,        \* << >> while running, then << what it returned or that it threw >>
  \* ---- computeServerFields on one record (enrichers/index.ts) -------
  kPc,            \* "idle", "computed" or "changed"
  kServer,        \* the record given
  kResult,        \* << >>, then << the record returned >>
  kPrev,          \* << >>, or << record given before, record returned for it >>
  \* ---- enrichServers, one await at a time (enrichers/index.ts) ------
  pPc,            \* "idle", "batch", "pause" or "returned"
  pNow,           \* the wall clock, epoch milliseconds
  pServers,       \* the servers argument
  pOptions,       \* the options argument
  pQueue,         \* queue
  pFlight,        \* the enrichServer calls of the current batch
  pResults,       \* results
  pEvents,        \* what happened so far, with the time of each event
  pWake,          \* the time the sleep between two batches ends
  \* ---- the pagination of the client (src/lib/pagination.ts) ---------
  pagination      \* state.pagination: page, pageSize, totalItems, totalPages

syncVars == << now, serversFile, syncStateFile, runs, pc, forceFull,
               existingServers, syncState, doFullSync, since, queriedAt,
               entries, updatedServers, enrichCalled, serversToEnrich,
               queue, results, startFile, failedAt, rRequests, rPages, rAll >>

fetchVars == << fPc, fMaxRetries, fBaseTimeout, fAttempt, fTimers, fRequests,
                fOutcomes, fSleeps, fLastError, fResult, fAborted, fCancels,
                fSibling >>

coordVars == << cPc, cNow, cServers, cOptions, cQueue, cResults, cTrace,
                cRun, cFirst >>

sourceVars == << sPc, sEnricher, sServer, sRequests, sResult >>

fieldVars == << kPc, kServer, kResult, kPrev >>

pipeVars == << pPc, pNow, pServers, pOptions, pQueue, pFlight, pResults,
               pEvents, pWake >>

pageVars == << pagination >>

vars == << syncVars, fetchVars, coordVars, sourceVars, fieldVars, pipeVars,
           pageVars >>

\* what the steps of one component leave alone
notSyncVars == << fetchVars, coordVars, sourceVars, fieldVars, pipeVars, pageVars >>
notFetchVars == << syncVars, coordVars, sourceVars, fieldVars, pipeVars, pageVars >>
notCoordVars == << syncVars, fetchVars, sourceVars, fieldVars, pipeVars, pageVars >>
notSourceVars == << syncVars, fetchVars, coordVars, fieldVars, pipeVars, pageVars >>
notFieldVars == << syncVars, fetchVars, coordVars, sourceVars, pipeVars, pageVars >>
notPipeVars == << syncVars, fetchVars, coordVars, sourceVars, fieldVars, pageVars >>
notPageVars == << syncVars, fetchVars, coordVars, sourceVars, fieldVars, pipeVars >>

----------------------------------------------------------------------------
(* Bounds of the model *)

\* number of sync processes run one after another
MaxRuns == 2
\* number of entries the registry client returns in one run
MaxEntries == 2
\* number of pages the registry serves for one fetch
MaxPages == 2

----------------------------------------------------------------------------
(* Program constants *)

FULL_SYNC_INTERVAL_MS == 7 * 24 * 60 * 60 * 1000
REGISTRY_PAGE_DELAY_MS == 100
SYNC_DELAY_MS == 200
SYNC_CONCURRENCY == 2
SYNC_MAX_AGE == 24 * 60 * 60 * 1000
STATE_VERSION == 1

----------------------------------------------------------------------------
(* Generic helpers *)

Range(s) == { s[i] : i \in 1..Len(s) }

RECURSIVE Concat(_)
Concat(ss) == IF ss = << >> THEN << >> ELSE Head(ss) \o Concat(Tail(ss))

\* all sequences over S of length <= n
SeqsUpTo(S, n) == UNION { [1..k -> S] : k \in 0..n }

\* toISOString() of an epoch time, and new Date(iso).getTime()
toISOString(t) == << t >>
getTime(iso) == iso[1]

----------------------------------------------------------------------------
(* Server names and String.prototype.localeCompare *)

CharRank(c) == CASE c = "/" -> 0 [] c = "a" -> 1 [] c = "b" -> 2 [] c = "c" -> 3
                 [] c = "t" -> 4 [] OTHER -> 5

RECURSIVE localeCompare(_, _)
localeCompare(a, b) ==
  IF a = << >> /\ b = << >> THEN 0
  ELSE IF a = << >> THEN -1
  ELSE IF b = << >> THEN 1
  ELSE IF CharRank(Head(a)) < CharRank(Head(b)) THEN -1
  ELSE IF CharRank(Head(a)) > CharRank(Head(b)) THEN 1
  ELSE localeCompare(Tail(a), Tail(b))

\* String.prototype.split("/")
RECURSIVE SplitSlash(_)
SplitSlash(s) ==
  IF \A i \in 1..Len(s) : s[i] # "/" THEN << s >>
  ELSE LET k == CHOOSE i \in 1..Len(s) : s[i] = "/" /\ \A j \in 1..(i-1) : s[j] # "/"
       IN << SubSeq(s, 1, k - 1) >> \o SplitSlash(SubSeq(s, k + 1, Len(s)))

----------------------------------------------------------------------------
(* Map<string, MCPServer>, keyed by name, values in insertion order *)

MapHas(m, k) == \E i \in 1..Len(m) : m[i].name = k
MapGet(m, k) == m[CHOOSE i \in 1..Len(m) : m[i].name = k]
MapSet(m, v) ==
  IF MapHas(m, v.name)
  THEN [i \in 1..Len(m) |-> IF m[i].name = v.name THEN v ELSE m[i]]
  ELSE Append(m, v)
MapDelete(m, k) == SelectSeq(m, LAMBDA v : v.name # k)

RECURSIVE MapSetAll(_, _)
MapSetAll(m, vs) == IF vs = << >> THEN m ELSE MapSetAll(MapSet(m, Head(vs)), Tail(vs))

MapNames(m) == { m[i].name : i \in 1..Len(m) }

----------------------------------------------------------------------------
(* The data the registry can return (scripts/types.ts) *)

Names == { << "a", "/", "t" >>, << "b" >> }

NpmPackage  == [registryType |-> "npm",  identifier |-> "acme-tool"]
\* a package entry without identifier, which no enricher can look up
NpmNoIdPackage == [registryType |-> "npm", identifier |-> ""]
PyPiPackage == [registryType |-> "pypi", identifier |-> "acme_tool"]
SseRemote   == [type |-> "sse", url |-> "https://mcp.example/sse"]

GitHubRepository == [url |-> "https://github.com/acme/tool", source |-> "github"]

\* MCPRegistryEntry: { server: {...}, _meta: { "io...official": {...} } }
RegistryEntry(n, descr, ver, repo, pkgs, rems, st, pub, upd, latest) ==
  [server |-> [name |-> n, description |-> descr, version |-> ver,
               repository |-> repo, packages |-> pkgs, remotes |-> rems],
   meta   |-> [status |-> st, publishedAt |-> pub, updatedAt |-> upd,
               isLatest |-> latest]]

\* an active first version with one npm package
EntryV1(n) == RegistryEntry(n, "first", "1.0.0", << >>,
                << << NpmPackage >> >>, << >>, "active",
                "2025-01-01", "2025-01-01", TRUE)
\* a deprecated second version: two registry types, one of them twice, a remote
EntryV2(n) == RegistryEntry(n, "second", "2.0.0", << >>,
                << << PyPiPackage, NpmNoIdPackage, PyPiPackage >> >>,
                << << SseRemote >> >>, "deprecated",
                "2025-01-01", "2025-02-02", TRUE)
\* the tombstone of the server
EntryDeleted(n) == RegistryEntry(n, "second", "2.0.0", << GitHubRepository >>,
                << >>, << >>, "deleted",
                "2025-01-01", "2025-03-03", TRUE)
\* a superseded version, which the registry still lists
EntryOld(n) == RegistryEntry(n, "old", "0.9.0", << >>,
                << << NpmPackage >> >>, << >>, "active",
                "2024-01-01", "2024-01-01", FALSE)

\* what the registry can list: every version of "a/t", and "b" active or deleted
RawPool ==
  { EntryV1(<< "a", "/", "t" >>), EntryV2(<< "a", "/", "t" >>),
    EntryDeleted(<< "a", "/", "t" >>), EntryOld(<< "a", "/", "t" >>),
    EntryV1(<< "b" >>), EntryDeleted(<< "b" >>) }

\* the fields of a record that come from the registry
RegistryFields == { "name", "description", "version", "repository", "packages",
                    "remotes", "status", "publishedAt", "updatedAt", "isLatest" }

----------------------------------------------------------------------------
(* scripts/sync.ts: convertRegistryEntry *)

EmptyComputed == [organization |-> << >>, serverName |-> << >>,
                  packageTypes |-> << >>, hasRemote |-> FALSE,
                  totalDownloads |-> 0, stars |-> 0]

\* x || [] of an optional array
OrEmpty(opt) == IF opt = << >> THEN << >> ELSE opt[1]

convertRegistryEntry(entry) ==
  [name        |-> entry.server.name,
   description |-> entry.server.description,
   version     |-> entry.server.version,
   repository  |-> entry.server.repository,
   packages    |-> OrEmpty(entry.server.packages),
   remotes     |-> OrEmpty(entry.server.remotes),
   status      |-> entry.meta.status,
   publishedAt |-> entry.meta.publishedAt,
   updatedAt   |-> entry.meta.updatedAt,
   isLatest    |-> entry.meta.isLatest,
   enrichment  |-> [lastEnrichedAt |-> << >>],
   computed    |-> EmptyComputed]

----------------------------------------------------------------------------
(* scripts/enrichers/index.ts: computeServerFields *)

\* a variant without the Set: every element as often as it occurs
Dedup_KeepsAll(xs) == xs

\* [...new Set(xs)]: the first occurrence of every element, in order
RECURSIVE Dedup(_)
Dedup(xs) ==
  IF xs = << >> THEN << >>
  ELSE LET init == Dedup(SubSeq(xs, 1, Len(xs) - 1))
           x == xs[Len(xs)]
       IN IF x \in Range(init) THEN init ELSE Append(init, x)

\* enrichment?.slot?.field, 0 when the slot or the figure is missing or falsy
Figure(e, slot, field) ==
  IF slot \in DOMAIN e /\ field \in DOMAIN e[slot] THEN e[slot][field] ELSE 0

\* a variant that leaves the container pulls out of the total
computeServerFields_SkipsDocker(server) ==
  LET nameParts == SplitSlash(server.name)
      e == server.enrichment
  IN [server EXCEPT !.computed =
        [organization |-> IF Len(nameParts) > 1 THEN nameParts[1] ELSE << >>,
         serverName |-> IF Len(nameParts) > 1 THEN nameParts[2] ELSE nameParts[1],
         packageTypes |-> Dedup([i \in 1..Len(server.packages) |->
                                   server.packages[i].registryType]),
         hasRemote |-> Len(server.remotes) > 0,
         totalDownloads |-> Figure(e, "npm", "monthlyDownloads")
                          + Figure(e, "pypi", "downloads")
                          + Figure(e, "nuget", "totalDownloads")
                          + Figure(e, "mcpb", "downloadCount"),
         stars |-> Figure(e, "github", "stars")]]

computeServerFields(server) ==
  LET nameParts == SplitSlash(server.name)
      organization == IF Len(nameParts) > 1 THEN nameParts[1] ELSE << >>
      serverName == IF Len(nameParts) > 1 THEN nameParts[2] ELSE nameParts[1]
      packageTypes == Dedup([i \in 1..Len(server.packages) |->
                               server.packages[i].registryType])
      hasRemote == Len(server.remotes) > 0
      e == server.enrichment
      totalDownloads == Figure(e, "npm", "monthlyDownloads")
                      + Figure(e, "pypi", "downloads")
                      + Figure(e, "nuget", "totalDownloads")
                      + Figure(e, "docker", "pulls")
                      + Figure(e, "mcpb", "downloadCount")
      stars == Figure(e, "github", "stars")
  IN [server EXCEPT !.computed =
        [organization |-> organization, serverName |-> serverName,
         packageTypes |-> packageTypes, hasRemote |-> hasRemote,
         totalDownloads |-> totalDownloads, stars |-> stars]]

----------------------------------------------------------------------------
(* scripts/enrichers/*.ts: what one source enricher can answer *)

\* the enrichers of enrichServer, in the declared order
Enrichers == << "GitHub", "npm", "PyPI", "NuGet", "Docker", "MCPB" >>

\* the registry type whose package a package enricher looks for
EnricherRegistryType(name) ==
  CASE name = "npm" -> "npm" [] name = "PyPI" -> "pypi" [] name = "NuGet" -> "nuget"
    [] name = "Docker" -> "oci" [] name = "MCPB" -> "mcpb" [] OTHER -> "none"

\* repoUrl.includes("github.com")
IncludesGitHub(url) == url \in { "https://github.com/acme/tool" }

\* a lookup that takes the identifier of the first package, whatever its type
FindIdentifier_AnyPackage(name, server) ==
  IF name = "GitHub"
  THEN IF server.repository # << >> THEN << server.repository[1].url >> ELSE << >>
  ELSE IF server.packages # << >> /\ server.packages[1].identifier # ""
       THEN << server.packages[1].identifier >> ELSE << >>

\* the identifier the enricher finds on the record: packages.find(...)?.identifier
\* for a package source, repository?.url on github.com for GitHub; << >> if none
FindIdentifier(name, server) ==
  IF name = "GitHub"
  THEN IF server.repository # << >> /\ IncludesGitHub(server.repository[1].url)
       THEN << server.repository[1].url >> ELSE << >>
  ELSE LET hits == SelectSeq(server.packages,
                     LAMBDA pkg : pkg.registryType = EnricherRegistryType(name))
       IN IF hits # << >> /\ hits[1].identifier # "" THEN << hits[1].identifier >>
          ELSE << >>

\* the data one source can return for a record
SourceData(name) ==
  CASE name = "GitHub" -> { [github |-> [stars |-> 7]] }
    [] name = "npm"    -> { [npm |-> [weeklyDownloads |-> 1200, monthlyDownloads |-> 5000]] }
    [] name = "PyPI"   -> { [pypi |-> [downloads |-> 300]] }
    [] name = "NuGet"  -> { [nuget |-> [totalDownloads |-> 40]] }
    [] name = "Docker" -> { [docker |-> [pulls |-> 9]] }
    [] OTHER           -> { [mcpb |-> [downloadCount |-> 2]] }

NullOutcome == [kind |-> "null"]
ThrowOutcome == [kind |-> "throw"]
DataOutcome(d) == [kind |-> "data", value |-> d]

\* the outcomes of calling one enricher on a record: null without a network
\* call when the identifier is missing; otherwise null, a thrown error or data
EnricherOutcomes(name, server) ==
  IF FindIdentifier(name, server) = << >> THEN { NullOutcome }
  ELSE { NullOutcome, ThrowOutcome } \cup { DataOutcome(d) : d \in SourceData(name) }

\* one outcome per enricher, in the declared order
OutcomeTuples(server) ==
  { << g, n, p, u, d, m >> :
      g \in EnricherOutcomes(Enrichers[1], server),
      n \in EnricherOutcomes(Enrichers[2], server),
      p \in EnricherOutcomes(Enrichers[3], server),
      u \in EnricherOutcomes(Enrichers[4], server),
      d \in EnricherOutcomes(Enrichers[5], server),
      m \in EnricherOutcomes(Enrichers[6], server) }

----------------------------------------------------------------------------
(* scripts/enrichers/index.ts: the coordinator *)

\* Object.assign(target, source) / { ...target, ...source }
ObjectAssign(target, source) ==
  [k \in DOMAIN target \cup DOMAIN source |->
     IF k \in DOMAIN source THEN source[k] ELSE target[k]]

\* a freshness test that takes a record never enriched for fresh
isEnrichmentFresh_EmptyIsFresh(server, maxAge, t) ==
  LET lastEnriched == server.enrichment.lastEnrichedAt
  IN IF lastEnriched = << >> THEN TRUE
     ELSE t - getTime(lastEnriched) < maxAge

isEnrichmentFresh(server, maxAge, t) ==
  LET lastEnriched == server.enrichment.lastEnrichedAt
  IN IF lastEnriched = << >> THEN FALSE
     ELSE t - getTime(lastEnriched) < maxAge

\* a loop without try/catch: nothing after the enricher that throws runs
RECURSIVE RunEnrichers_StopsAtThrow(_, _)
RunEnrichers_StopsAtThrow(enrichment, outcomes) ==
  IF outcomes = << >> THEN enrichment
  ELSE LET o == Head(outcomes)
           next == IF o.kind = "data" THEN ObjectAssign(enrichment, o.value)
                   ELSE enrichment
       IN IF o.kind = "throw" THEN enrichment
          ELSE RunEnrichers_StopsAtThrow(next, Tail(outcomes))

\* a loop that replaces the enrichment by the result instead of assigning it
RECURSIVE RunEnrichers_ReplacesAll(_, _)
RunEnrichers_ReplacesAll(enrichment, outcomes) ==
  IF outcomes = << >> THEN enrichment
  ELSE LET o == Head(outcomes)
           next == IF o.kind = "data"
                   THEN ObjectAssign([lastEnrichedAt |-> enrichment.lastEnrichedAt],
                                     o.value)
                   ELSE enrichment
       IN RunEnrichers_ReplacesAll(next, Tail(outcomes))

\* the for loop over the enrichers: a result that is not null is assigned,
\* a thrown error is caught and logged
RECURSIVE RunEnrichers(_, _)
RunEnrichers(enrichment, outcomes) ==
  IF outcomes = << >> THEN enrichment
  ELSE LET o == Head(outcomes)
           next == IF o.kind = "data" THEN ObjectAssign(enrichment, o.value)
                   ELSE enrichment
       IN RunEnrichers(next, Tail(outcomes))

\* an enrichServer that renews the stamp of the records it skips
enrichServer_SkipRestamps(server, opts, t, outcomes) ==
  LET enrichment == ObjectAssign(server.enrichment,
                                 [lastEnrichedAt |-> toISOString(t)])
  IN IF opts.skipIfFresh /\ isEnrichmentFresh(server, opts.maxAge, t)
     THEN [server EXCEPT !.enrichment = enrichment]
     ELSE [server EXCEPT !.enrichment = RunEnrichers(enrichment, outcomes)]

\* an enrichServer that stamps only the records some source had data for
enrichServer_StampsOnData(server, opts, t, outcomes) ==
  IF opts.skipIfFresh /\ isEnrichmentFresh(server, opts.maxAge, t)
  THEN server
  ELSE LET enrichment ==
             IF \E i \in 1..Len(outcomes) : outcomes[i].kind = "data"
             THEN ObjectAssign(server.enrichment,
                               [lastEnrichedAt |-> toISOString(t)])
             ELSE server.enrichment
       IN [server EXCEPT !.enrichment = RunEnrichers(enrichment, outcomes)]

\* enrichServer(server, opts), called at time t, the enrichers answering outcomes
enrichServer(server, opts, t, outcomes) ==
  IF opts.skipIfFresh /\ isEnrichmentFresh(server, opts.maxAge, t)
  THEN server
  ELSE LET enrichment == ObjectAssign(server.enrichment,
                                      [lastEnrichedAt |-> toISOString(t)])
       IN [server EXCEPT !.enrichment = RunEnrichers(enrichment, outcomes)]

\* lines 53-56: whether enrichServer returns at once
Skips(server, opts, t) == opts.skipIfFresh /\ isEnrichmentFresh(server, opts.maxAge, t)

\* the enrichers enrichServer calls for the record: none when it returns at
\* line 55, else every one of the list, a throwing one included
EnrichersCalled(server, opts, t) ==
  IF Skips(server, opts, t) THEN << >> ELSE Enrichers

\* the enrichers that issue requests: those that find their identifier
NetworkCalls(server, opts, t) ==
  SelectSeq(EnrichersCalled(server, opts, t),
            LAMBDA e : FindIdentifier(e, server) # << >>)

\* the sleeps of one batch: opts.delayMs after every enricher of a record that
\* is not skipped (the records of a batch run side by side), then
\* opts.delayMs * 2 when records are left
BatchSleep(batch, rest, opts, t) ==
  (IF \E i \in 1..Len(batch) : ~Skips(batch[i], opts, t)
   THEN Len(Enrichers) * opts.delayMs ELSE 0)
  + (IF rest # << >> THEN opts.delayMs * 2 ELSE 0)

\* a splice that takes the whole queue, whatever the concurrency
SpliceBatch_TakesAll(q, concurrency) == [batch |-> q, rest |-> << >>]

\* an enrichServer that assigns the stamp and the results to server.enrichment
ArgumentAfter_AssignedInPlace(server, opts, t, outcomes) ==
  enrichServer(server, opts, t, outcomes)

\* the argument of enrichServer after the call: lines 60-63 build a new object
\* from a spread, line 80 assigns to that object and lines 89-92 return a new
\* record, so no assignment has the argument or its enrichment as target
ArgumentAfter(server, opts, t, outcomes) == server

\* queue.splice(0, concurrency): the batch taken, and what is left
SpliceBatch(q, concurrency) ==
  LET k == IF concurrency < Len(q) THEN concurrency ELSE Len(q)
  IN [batch |-> SubSeq(q, 1, k), rest |-> SubSeq(q, k + 1, Len(q))]

\* one choice of enricher outcomes for every record of a batch
RECURSIVE BatchOutcomes(_)
BatchOutcomes(batch) ==
  IF batch = << >> THEN { << >> }
  ELSE { << o >> \o r : o \in OutcomeTuples(Head(batch)), r \in BatchOutcomes(Tail(batch)) }

\* Promise.all(batch.map(server => enrichServer(server, opts)))
EnrichBatchResults(batch, opts, t, os) ==
  [i \in 1..Len(batch) |-> enrichServer(batch[i], opts, t, os[i])]

----------------------------------------------------------------------------
(* scripts/registry.ts: the registry client *)

\* a test that takes every cursor that is present for a next page
Truthy_AnyString(cursor) == cursor # << >>

\* a cursor is an optional string; `if (cursor)` / `while (cursor)`
Truthy(cursor) == cursor # << >> /\ cursor[1] # ""

RegistryResponse(servers, nextCursor) == [servers |-> servers, nextCursor |-> nextCursor]

\* a filter that keeps the superseded versions
LatestServers_KeepsAll(response) == response.servers

\* response.servers.filter(entry => entry._meta[...].isLatest)
LatestServers(response) == SelectSeq(response.servers, LAMBDA entry : entry.meta.isLatest)

\* a fetchAllServers that stops after its first page
fetchAllServers_FirstPageOnly(pages) ==
  IF pages = << >> THEN << >> ELSE LatestServers(Head(pages))

\* fetchAllServers against a registry that answers the successive page
\* requests with `pages`, the last of which carries no cursor
RECURSIVE fetchAllServers(_)
fetchAllServers(pages) ==
  IF pages = << >> THEN << >>
  ELSE LET response == Head(pages)
           latestServers == LatestServers(response)
       IN IF Truthy(response.nextCursor)
          THEN latestServers \o fetchAllServers(Tail(pages))
          ELSE latestServers

\* the entries served so far, retained or not
RawReceived(pages) == Concat([k \in 1..Len(pages) |-> pages[k].servers])

\* the cursor the registry hands out with page k
CursorOf(k) == IF k = 1 THEN "cursor-1" ELSE "cursor-2"

\* the request fetchServers makes: the cursor and the updated_since parameter,
\* each set on the URL only when truthy
PageRequest(cursor, updatedSince) == [cursor |-> cursor, updatedSince |-> updatedSince]

----------------------------------------------------------------------------
(* scripts/sync.ts: files *)

NoFile == [kind |-> "none"]
JsonFile(content) == [kind |-> "json", content |-> content]

\* loadServers(): an empty Map when the file is missing or does not parse
loadServers(file) ==
  IF file.kind = "json" THEN MapSetAll(<< >>, file.content) ELSE << >>

\* loadSyncState(): null when the file is missing or does not parse
loadSyncState(file) ==
  IF file.kind = "json" THEN << file.content >> ELSE << >>

\* [...servers].sort((a, b) => a.name.localeCompare(b.name)): a stable sort
RECURSIVE InsertByName(_, _)
InsertByName(sorted, x) ==
  IF sorted = << >> THEN << x >>
  ELSE IF localeCompare(sorted[Len(sorted)].name, x.name) <= 0 THEN Append(sorted, x)
  ELSE Append(InsertByName(SubSeq(sorted, 1, Len(sorted) - 1), x), sorted[Len(sorted)])

RECURSIVE SortByName(_)
SortByName(servers) ==
  IF servers = << >> THEN << >>
  ELSE InsertByName(SortByName(SubSeq(servers, 1, Len(servers) - 1)),
                    servers[Len(servers)])

\* saveServers without the sort: the Map's insertion order is written
saveServers_Unsorted(servers) == JsonFile(servers)

\* what saveServers(servers) writes
saveServers(servers) == JsonFile(SortByName(servers))

----------------------------------------------------------------------------
(* scripts/sync.ts: shouldDoFullSync and the merge loop of sync() *)

\* shouldDoFullSync with >= in place of >
shouldDoFullSync_AtLeast(force, state, t) ==
  IF force THEN TRUE
  ELSE IF state = << >> THEN TRUE
  ELSE t - getTime(state[1].lastFullSyncAt) >= FULL_SYNC_INTERVAL_MS

shouldDoFullSync(force, state, t) ==
  IF force THEN TRUE
  ELSE IF state = << >> THEN TRUE
  ELSE t - getTime(state[1].lastFullSyncAt) > FULL_SYNC_INTERVAL_MS

\* a working Map that starts empty instead of as a copy of the prior snapshot
InitialWorkingMap_Empty(existing) == << >>

\* const updatedServers = new Map(existingServers)
InitialWorkingMap(existing) == existing

\* the loop body without the carry-over of the prior enrichment
MergeEntry_DropsEnrichment(updated, existing, entry) ==
  LET server == convertRegistryEntry(entry)
  IN IF server.status = "deleted" THEN MapDelete(updated, server.name)
     ELSE MapSet(updated, server)

\* the loop body without the removal of deleted servers
MergeEntry_KeepsDeleted(updated, existing, entry) ==
  LET converted == convertRegistryEntry(entry)
      keep == MapHas(existing, converted.name)
              /\ MapGet(existing, converted.name).enrichment.lastEnrichedAt # << >>
      server == IF keep
                THEN [converted EXCEPT
                        !.enrichment = MapGet(existing, converted.name).enrichment]
                ELSE converted
  IN MapSet(updated, server)

\* the body of `for (const entry of entries)`
MergeEntry(updated, existing, entry) ==
  LET converted == convertRegistryEntry(entry)
      keep == MapHas(existing, converted.name)
              /\ MapGet(existing, converted.name).enrichment.lastEnrichedAt # << >>
      server == IF keep
                THEN [converted EXCEPT
                        !.enrichment = MapGet(existing, converted.name).enrichment]
                ELSE converted
  IN IF server.status = "deleted" THEN MapDelete(updated, server.name)
     ELSE MapSet(updated, server)

RECURSIVE MergeEntries(_, _, _)
MergeEntries(updated, existing, es) ==
  IF es = << >> THEN updated
  ELSE MergeEntries(MergeEntry(updated, existing, Head(es)), existing, Tail(es))

\* doFullSync ? serversArray : serversArray.filter(s => entries.some(...))
SelectServersToEnrich_Everything(full, serversArray, es) == serversArray

SelectServersToEnrich(full, serversArray, es) ==
  IF full THEN serversArray
  ELSE SelectSeq(serversArray,
         LAMBDA s : \E i \in 1..Len(es) : es[i].server.name = s.name)

\* the options sync() gives to enrichServers
SyncEnrichOptions(full) ==
  [delayMs |-> SYNC_DELAY_MS, concurrency |-> SYNC_CONCURRENCY,
   skipIfFresh |-> ~full, maxAge |-> SYNC_MAX_AGE]

\* the array written without the map over computeServerFields
ComputedArray_NotRecomputed(m) == m

\* Array.from(updatedServers.values()).map(computeServerFields)
ComputedArray(m) == [i \in 1..Len(m) |-> computeServerFields(m[i])]

\* a SyncState whose lastFullSyncAt is renewed by every run
NewSyncState_AlwaysRenews(full, state, m, t) ==
  [lastSyncAt     |-> toISOString(t),
   totalServers   |-> Len(ComputedArray(m)),
   lastFullSyncAt |-> toISOString(t),
   version        |-> STATE_VERSION]

\* the SyncState written at the end of a run
NewSyncState(full, state, m, t) ==
  [lastSyncAt     |-> toISOString(t),
   totalServers   |-> Len(ComputedArray(m)),
   lastFullSyncAt |-> IF full THEN toISOString(t)
                      ELSE IF state # << >> /\ state[1].lastFullSyncAt # << >>
                           THEN state[1].lastFullSyncAt
                           ELSE toISOString(t),
   version        |-> STATE_VERSION]

----------------------------------------------------------------------------
(* The sync process, scripts/sync.ts sync(), run MaxRuns times in a row *)

\* the time that passes between the end of a run and the start of the next
RunGaps == { 1, SYNC_MAX_AGE - 1, FULL_SYNC_INTERVAL_MS, FULL_SYNC_INTERVAL_MS + 1 }

\* no data directory yet, no process started, no fetchWithRetry call under way
Init ==
  /\ now = 0
  /\ serversFile = NoFile
  /\ syncStateFile = NoFile
  /\ runs = 0
  /\ pc = "idle"
  /\ forceFull = FALSE
  /\ existingServers = << >>
  /\ syncState = << >>
  /\ doFullSync = FALSE
  /\ since = << >>
  /\ queriedAt = 0
  /\ entries = << >>
  /\ updatedServers = << >>
  /\ enrichCalled = FALSE
  /\ serversToEnrich = << >>
  /\ queue = << >>
  /\ results = << >>
  /\ startFile = NoFile
  /\ failedAt = ""
  /\ rRequests = << >>
  /\ rPages = << >>
  /\ rAll = << >>
  /\ fPc = "idle"
  /\ fMaxRetries = 0
  /\ fBaseTimeout = 0
  /\ fAttempt = 0
  /\ fTimers = { }
  /\ fRequests = << >>
  /\ fOutcomes = << >>
  /\ fSleeps = << >>
  /\ fLastError = << >>
  /\ fResult = << >>
  /\ fAborted = { }
  /\ fCancels = << >>
  /\ fSibling = "pending"
  /\ cPc = "idle"
  /\ cNow = 0
  /\ cServers = << >>
  /\ cOptions = << >>
  /\ cQueue = << >>
  /\ cResults = << >>
  /\ cTrace = << >>
  /\ cRun = 0
  /\ cFirst = << >>
  /\ sPc = "idle"
  /\ sEnricher = ""
  /\ sServer = << >>
  /\ sRequests = << >>
  /\ sResult = << >>
  /\ kPc = "idle"
  /\ kServer = << >>
  /\ kResult = << >>
  /\ kPrev = << >>
  /\ pPc = "idle"
  /\ pNow = 0
  /\ pServers = << >>
  /\ pOptions = << >>
  /\ pQueue = << >>
  /\ pFlight = << >>
  /\ pResults = << >>
  /\ pEvents = << >>
  /\ pWake = 0
  /\ pagination = << >>

\* lines 150-171: a new process loads both files and decides the mode
StartRun ==
  /\ pc \in { "idle", "done", "failed" }
  /\ runs < MaxRuns
  /\ \E gap \in (IF runs = 0 THEN { 0 } ELSE RunGaps), force \in BOOLEAN :
       LET t == now + gap
           state == loadSyncState(syncStateFile)
           full == shouldDoFullSync(force, state, t)
       IN /\ now' = t
          /\ forceFull' = force
          /\ existingServers' = loadServers(serversFile)
          /\ syncState' = state
          /\ doFullSync' = full
          /\ since' = IF full THEN << >> ELSE << state[1].lastSyncAt >>
  /\ runs' = runs + 1
  /\ pc' = "fetch"
  /\ startFile' = serversFile
  /\ queriedAt' = 0
  /\ entries' = << >>
  /\ updatedServers' = << >>
  /\ enrichCalled' = FALSE
  /\ serversToEnrich' = << >>
  /\ queue' = << >>
  /\ results' = << >>
  /\ failedAt' = ""
  \* registry.ts lines 453-463: the first page is requested, without cursor
  /\ rRequests' = << PageRequest(<< >>, since') >>
  /\ rPages' = << >>
  /\ rAll' = << >>
  /\ UNCHANGED << serversFile, syncStateFile >>
  /\ UNCHANGED notSyncVars

\* registry.ts lines 458-476: a page with a cursor arrives; its latest
\* entries are kept and, after a sleep, the next page is requested
RegistryPage ==
  /\ pc = "fetch"
  /\ Len(rPages) + 1 < MaxPages
  /\ \E servers \in SeqsUpTo(RawPool, MaxEntries - Len(RawReceived(rPages))) :
       LET response == RegistryResponse(servers, << CursorOf(Len(rPages) + 1) >>)
       IN /\ rPages' = Append(rPages, response)
          /\ rAll' = rAll \o LatestServers(response)
          /\ rRequests' = Append(rRequests,
                             PageRequest(response.nextCursor, rRequests[1].updatedSince))
  /\ now' = now + 1 + REGISTRY_PAGE_DELAY_MS
  /\ UNCHANGED << serversFile, syncStateFile, runs, pc, forceFull, existingServers,
                  syncState, doFullSync, since, queriedAt, entries, updatedServers,
                  enrichCalled, serversToEnrich, queue, results, startFile, failedAt >>
  /\ UNCHANGED notSyncVars

\* lines 163-207: the registry answers; the entries are merged into the
\* working Map and the records to enrich are selected
FetchOk ==
  /\ pc = "fetch"
  /\ \E servers \in SeqsUpTo(RawPool, MaxEntries - Len(RawReceived(rPages))) :
       LET pages == Append(rPages, RegistryResponse(servers, << >>))
           es == fetchAllServers(pages)
           updated == MergeEntries(InitialWorkingMap(existingServers), existingServers, es)
           selected == SelectServersToEnrich(doFullSync, updated, es)
       IN /\ rPages' = pages
          /\ rAll' = es
          /\ entries' = es
          /\ updatedServers' = updated
          /\ IF Len(es) > 0
             THEN /\ enrichCalled' = TRUE
                  /\ serversToEnrich' = selected
                  /\ queue' = selected
                  /\ pc' = "enrich"
             ELSE /\ enrichCalled' = FALSE
                  /\ serversToEnrich' = << >>
                  /\ queue' = << >>
                  /\ pc' = "save"
  /\ queriedAt' = now
  \* the answer takes time to arrive: a millisecond here
  /\ now' = now + 1
  /\ UNCHANGED << serversFile, syncStateFile, runs, forceFull, existingServers,
                  syncState, doFullSync, since, results, startFile, failedAt,
                  rRequests >>
  /\ UNCHANGED notSyncVars

\* a registry client that, on a failed page, returns the entries it has
FetchFail_ReturnsPartial ==
  /\ pc = "fetch"
  /\ pc' = "save"
  /\ entries' = rAll
  /\ updatedServers' = MergeEntries(InitialWorkingMap(existingServers), existingServers, rAll)
  /\ queriedAt' = now
  /\ UNCHANGED << now, serversFile, syncStateFile, runs, forceFull, existingServers,
                  syncState, doFullSync, since, failedAt,
                  enrichCalled, serversToEnrich, queue, results, startFile,
                  rRequests, rPages, rAll >>
  /\ UNCHANGED notSyncVars

\* registry.ts lines 432-436: a response that is not ok throws, sync() rejects
FetchFail ==
  /\ pc = "fetch"
  /\ pc' = "failed"
  /\ failedAt' = "fetch"
  /\ queriedAt' = now
  /\ UNCHANGED << now, serversFile, syncStateFile, runs, forceFull, existingServers,
                  syncState, doFullSync, since, entries, updatedServers,
                  enrichCalled, serversToEnrich, queue, results, startFile,
                  rRequests, rPages, rAll >>
  /\ UNCHANGED notSyncVars

\* enrichers/index.ts lines 113-134: one iteration of the batch loop
EnrichBatch ==
  /\ pc = "enrich"
  /\ queue # << >>
  /\ LET opts == SyncEnrichOptions(doFullSync)
         cut == SpliceBatch(queue, opts.concurrency)
     IN /\ \E os \in BatchOutcomes(cut.batch) :
             results' = results \o EnrichBatchResults(cut.batch, opts, now, os)
        /\ queue' = cut.rest
        /\ now' = now + BatchSleep(cut.batch, cut.rest, opts, now)
  /\ UNCHANGED << serversFile, syncStateFile, runs, pc, forceFull, existingServers,
                  syncState, doFullSync, since, queriedAt, entries, updatedServers,
                  enrichCalled, serversToEnrich, startFile, failedAt >>
  /\ UNCHANGED << rRequests, rPages, rAll >>
  /\ UNCHANGED notSyncVars

\* enrichers/index.ts line 138 and sync.ts lines 216-219: enrichServers
\* returns and the enriched records replace the ones of the working Map
EnrichReturn ==
  /\ pc = "enrich"
  /\ queue = << >>
  /\ updatedServers' = MapSetAll(updatedServers, results)
  /\ pc' = "save"
  /\ UNCHANGED << now, serversFile, syncStateFile, runs, forceFull, existingServers,
                  syncState, doFullSync, since, queriedAt, entries,
                  enrichCalled, serversToEnrich, queue, results, startFile, failedAt >>
  /\ UNCHANGED << rRequests, rPages, rAll >>
  /\ UNCHANGED notSyncVars

\* lines 222-226: the derived fields are computed and the snapshot is written
SaveServersOk ==
  /\ pc = "save"
  /\ serversFile' = saveServers(ComputedArray(updatedServers))
  /\ pc' = "savestate"
  /\ UNCHANGED << now, syncStateFile, runs, forceFull, existingServers, syncState,
                  doFullSync, since, queriedAt, entries, updatedServers,
                  enrichCalled, serversToEnrich, queue, results, startFile, failedAt >>
  /\ UNCHANGED << rRequests, rPages, rAll >>
  /\ UNCHANGED notSyncVars

\* lines 69-75: mkdir or writeFile rejects. The file is taken to be as it was
\* (the most favourable outcome of a write that fails: writeFile is not atomic)
SaveServersFail ==
  /\ pc = "save"
  /\ pc' = "failed"
  /\ failedAt' = "saveServers"
  /\ UNCHANGED << now, serversFile, syncStateFile, runs, forceFull, existingServers, syncState,
                  doFullSync, since, queriedAt, entries, updatedServers,
                  enrichCalled, serversToEnrich, queue, results, startFile >>
  /\ UNCHANGED << rRequests, rPages, rAll >>
  /\ UNCHANGED notSyncVars

\* lines 228-238: the new sync state is built and written
SaveSyncStateOk ==
  /\ pc = "savestate"
  /\ syncStateFile' = JsonFile(NewSyncState(doFullSync, syncState, updatedServers, now))
  /\ pc' = "done"
  /\ UNCHANGED << now, serversFile, runs, forceFull, existingServers, syncState,
                  doFullSync, since, queriedAt, entries, updatedServers,
                  enrichCalled, serversToEnrich, queue, results, startFile, failedAt >>
  /\ UNCHANGED << rRequests, rPages, rAll >>
  /\ UNCHANGED notSyncVars

\* lines 82-84: mkdir or writeFile rejects; the file is taken to be as it was
SaveSyncStateFail ==
  /\ pc = "savestate"
  /\ pc' = "failed"
  /\ failedAt' = "saveSyncState"
  /\ UNCHANGED << now, serversFile, syncStateFile, runs, forceFull, existingServers, syncState,
                  doFullSync, since, queriedAt, entries, updatedServers,
                  enrichCalled, serversToEnrich, queue, results, startFile >>
  /\ UNCHANGED << rRequests, rPages, rAll >>
  /\ UNCHANGED notSyncVars

SyncNext ==
  \/ StartRun
  \/ RegistryPage
  \/ FetchOk
  \/ FetchFail
  \/ EnrichBatch
  \/ EnrichReturn
  \/ SaveServersOk
  \/ SaveServersFail
  \/ SaveSyncStateOk
  \/ SaveSyncStateFail

Spec == Init /\ [][SyncNext]_vars

----------------------------------------------------------------------------
(* Vocabulary of the properties of the sync process *)

\* the run has merged the fetched entries into the working Map
MergeDone ==
  \/ pc \in { "enrich", "save", "savestate", "done" }
  \/ pc = "failed" /\ failedAt # "fetch"

\* the run has written its snapshot
SnapshotWritten ==
  \/ pc \in { "savestate", "done" }
  \/ pc = "failed" /\ failedAt = "saveSyncState"

\* the records of a snapshot file, none when it is missing or does not parse
FileRecords(file) == IF file.kind = "json" THEN file.content ELSE << >>
FileNames(file) == { FileRecords(file)[i].name : i \in 1..Len(FileRecords(file)) }
FileRecord(file, n) ==
  FileRecords(file)[CHOOSE i \in 1..Len(FileRecords(file)) : FileRecords(file)[i].name = n]

EntryNames(es) == { es[i].server.name : i \in 1..Len(es) }
\* the last entry of that name in fetch order
LastEntry(es, n) ==
  es[CHOOSE i \in 1..Len(es) :
       es[i].server.name = n /\ \A j \in (i+1)..Len(es) : es[j].server.name # n]

\* every registry-sourced field of the record is the one of the entry
HasFieldsOf(rec, entry) ==
  /\ rec.name = entry.server.name
  /\ rec.description = entry.server.description
  /\ rec.version = entry.server.version
  /\ rec.repository = entry.server.repository
  /\ rec.packages = (IF entry.server.packages = << >> THEN << >>
                     ELSE entry.server.packages[1])
  /\ rec.remotes = (IF entry.server.remotes = << >> THEN << >>
                    ELSE entry.server.remotes[1])
  /\ rec.status = entry.meta.status
  /\ rec.publishedAt = entry.meta.publishedAt
  /\ rec.updatedAt = entry.meta.updatedAt
  /\ rec.isLatest = entry.meta.isLatest

\* the prior snapshot holds record n with an enrichment that has been stamped
\* and is younger than 24 hours when the coordinator looks at it (the clock
\* does not move between the coordinator's look and the end of the run)
PriorFresh(n) ==
  /\ MapHas(existingServers, n)
  /\ MapGet(existingServers, n).enrichment.lastEnrichedAt # << >>
  /\ now - MapGet(existingServers, n).enrichment.lastEnrichedAt[1] < 24 * 60 * 60 * 1000

----------------------------------------------------------------------------
(* C1. Merge correctness of an incremental run: when the prior snapshot holds
   record A with a stamped enrichment E that is still within the freshness
   window, and the incremental fetch returns an entry for A (the last one of
   that name not deleted), the persisted record A has every registry-sourced
   field of that entry and its enrichment is E. *)
C1_MergeKeepsEnrichment ==
  (SnapshotWritten /\ ~doFullSync) =>
    \A n \in EntryNames(entries) :
      (PriorFresh(n) /\ LastEntry(entries, n).meta.status # "deleted") =>
        /\ n \in FileNames(serversFile)
        /\ HasFieldsOf(FileRecord(serversFile, n), LastEntry(entries, n))
        /\ FileRecord(serversFile, n).enrichment = MapGet(existingServers, n).enrichment

\* an incremental run has persisted an update of an enriched record: the
\* registry fields changed, the enrichment carries data
C1_Witness ==
  /\ SnapshotWritten /\ ~doFullSync
  /\ \E n \in EntryNames(entries) :
       /\ PriorFresh(n)
       /\ LastEntry(entries, n).meta.status # "deleted"
       /\ MapGet(existingServers, n).version # LastEntry(entries, n).server.version
       /\ "npm" \in DOMAIN MapGet(existingServers, n).enrichment
       /\ FileRecord(serversFile, n).version = LastEntry(entries, n).server.version

----------------------------------------------------------------------------
(* C2. Deletion: once the entries are merged, a name whose last fetched entry
   has status "deleted" is not in the working collection, whatever the prior
   record was; and no snapshot written by any sequence of runs that started
   from an empty data directory holds a record whose status is deleted. *)
C2_DeletedArePurged ==
  /\ MergeDone =>
       \A n \in EntryNames(entries) :
         LastEntry(entries, n).meta.status = "deleted" => ~MapHas(updatedServers, n)
  /\ \A i \in 1..Len(FileRecords(serversFile)) :
       FileRecords(serversFile)[i].status # "deleted"

\* a record that carried enrichment data was deleted upstream and the
\* snapshot written by the run no longer holds it
C2_Witness ==
  /\ SnapshotWritten
  /\ \E n \in EntryNames(entries) :
       /\ LastEntry(entries, n).meta.status = "deleted"
       /\ MapHas(existingServers, n)
       /\ "npm" \in DOMAIN MapGet(existingServers, n).enrichment
       /\ n \notin FileNames(serversFile)
       /\ FileNames(serversFile) # { }

----------------------------------------------------------------------------
(* C3. Records are removed only on observed deletion upstream: when a run,
   full or incremental, has written its snapshot, every record of the
   snapshot the run started from that is missing from the new snapshot has
   a fetched entry of its name with status deleted. *)
C3_RemovedOnlyWhenDeleted ==
  SnapshotWritten =>
    \A n \in FileNames(startFile) \ FileNames(serversFile) :
      \E i \in 1..Len(entries) :
        entries[i].server.name = n /\ entries[i].meta.status = "deleted"

\* a completed full run whose fetched entries do not list a prior record:
\* the record is retained
C3_Witness ==
  /\ pc = "done" /\ doFullSync
  /\ entries # << >>
  /\ \E n \in FileNames(startFile) :
       n \notin EntryNames(entries) /\ n \in FileNames(serversFile)

----------------------------------------------------------------------------
(* C4. Selection of the records to enrich: on a full sync every record of the
   working collection is passed to the coordinator, whatever the number of
   fetched entries; on an incremental sync exactly the records of the working
   collection whose name occurs among the fetched entries. *)
C4_SelectionForEnrichment ==
  MergeDone =>
    IF doFullSync
    THEN /\ (updatedServers # << >> => enrichCalled)
         /\ { serversToEnrich[i].name : i \in 1..Len(serversToEnrich) }
              = MapNames(updatedServers)
    ELSE { serversToEnrich[i].name : i \in 1..Len(serversToEnrich) }
           = MapNames(updatedServers) \cap EntryNames(entries)

\* the same selection for the runs that fetched at least one entry
C4_SelectionWhenEntriesFetched ==
  (MergeDone /\ entries # << >>) =>
    /\ enrichCalled
    /\ IF doFullSync
       THEN { serversToEnrich[i].name : i \in 1..Len(serversToEnrich) }
              = MapNames(updatedServers)
       ELSE { serversToEnrich[i].name : i \in 1..Len(serversToEnrich) }
              = MapNames(updatedServers) \cap EntryNames(entries)

----------------------------------------------------------------------------
(* C5. A failed run leaves the previous snapshot untouched: when a run ends in
   the fatal-error state (registry fetch error, snapshot write error or
   sync-state write error), servers.json is as it was when the run started. *)
C5_FailedRunLeavesSnapshot ==
  pc = "failed" => serversFile = startFile

\* what the code does guarantee: a run that fails before the sync-state write
\* has not replaced servers.json
C5_EarlyFailureLeavesSnapshot ==
  (pc = "failed" /\ failedAt # "saveSyncState") => serversFile = startFile

----------------------------------------------------------------------------
(* C6. Sync-state update: after a run that completes, sync-state.json holds
   lastSyncAt = the time of the run, totalServers = the number of records of
   the snapshot the run wrote, and lastFullSyncAt = the time of the run when
   the run was full, the prior lastFullSyncAt when it was incremental. *)
C6_SyncStateUpdate ==
  pc = "done" =>
    /\ syncStateFile.kind = "json"
    /\ syncStateFile.content.lastSyncAt = << now >>
    /\ serversFile.kind = "json"
    /\ syncStateFile.content.totalServers = Len(serversFile.content)
    /\ syncStateFile.content.lastFullSyncAt =
         (IF doFullSync THEN << now >> ELSE syncState[1].lastFullSyncAt)

\* an incremental run completed later than the last full sync, with a
\* snapshot that is not empty
C6_Witness ==
  /\ pc = "done" /\ ~doFullSync
  /\ syncStateFile.content.lastFullSyncAt # << now >>
  /\ syncStateFile.content.totalServers > 0

----------------------------------------------------------------------------
(* C7. Mode decision: the run is full if and only if the force flag is set, or
   no prior sync-state could be loaded, or now - lastFullSyncAt is strictly
   greater than 7 days; otherwise it is incremental and passes the prior
   lastSyncAt as the lower bound of the registry query. (At pc = "fetch",
   before the first page has arrived, the clock is the one the decision
   read.) *)
C7_ModeDecision ==
  (pc = "fetch" /\ rPages = << >>) =>
    /\ doFullSync <=>
         \/ forceFull
         \/ syncStateFile.kind # "json"
         \/ now - syncStateFile.content.lastFullSyncAt[1] > 7 * 24 * 60 * 60 * 1000
    /\ ~doFullSync => since = << syncStateFile.content.lastSyncAt >>

\* the boundary: exactly 7 days after the last full sync the run is incremental
C7_Witness ==
  /\ pc = "fetch" /\ rPages = << >> /\ ~forceFull /\ ~doFullSync
  /\ syncStateFile.kind = "json"
  /\ now - syncStateFile.content.lastFullSyncAt[1] = 7 * 24 * 60 * 60 * 1000
  /\ since = << syncStateFile.content.lastSyncAt >>

----------------------------------------------------------------------------
(* C8. Every snapshot written is a list of records in strictly increasing
   order of name (sorted, no name twice); and when the entries fetched by a
   run hold several entries of one name, the last one in fetch order decides:
   the record has its fields, or is absent when it is a deletion. *)
C8_SortedUniqueLastWins ==
  /\ \A i, j \in 1..Len(FileRecords(serversFile)) :
       i < j => localeCompare(FileRecords(serversFile)[i].name,
                              FileRecords(serversFile)[j].name) < 0
  /\ SnapshotWritten =>
       \A n \in EntryNames(entries) :
         IF LastEntry(entries, n).meta.status = "deleted"
         THEN n \notin FileNames(serversFile)
         ELSE /\ n \in FileNames(serversFile)
              /\ HasFieldsOf(FileRecord(serversFile, n), LastEntry(entries, n))

\* two fetched entries of one name with different contents, and a working
\* Map whose insertion order is not the order of the names
C8_Witness ==
  /\ SnapshotWritten
  /\ Len(entries) = 2
  /\ entries[1].server.name = entries[2].server.name
  /\ entries[1].server.version # entries[2].server.version
  /\ Len(updatedServers) = 2
  /\ localeCompare(updatedServers[1].name, updatedServers[2].name) > 0
  /\ Len(FileRecords(serversFile)) = 2

----------------------------------------------------------------------------
(* scripts/utils/fetch.ts: isRetriableError and fetchWithRetry *)

\* the largest maxRetries argument tried
MaxRetriesArg == 3

DEFAULT_BASE_TIMEOUT == 10000
BACKOFF_UNIT_MS == 1000

\* the statuses of the responses a server can send
Statuses == { 200, 403, 404, 500 }
Response(status) == [kind |-> "response", status |-> status]

\* what fetch() can reject with; `object` is false for a thrown primitive
ErrorValue(object, code, name, message, causeCode) ==
  [kind |-> "error", object |-> object, code |-> code, name |-> name,
   message |-> message, causeCode |-> causeCode]

\* controller.abort() makes the pending fetch reject with an AbortError
AbortError == ErrorValue(TRUE, "", "AbortError", "This operation was aborted", "")

NetworkErrors ==
  { ErrorValue(TRUE, "UND_ERR_CONNECT_TIMEOUT", "Error", "connect timeout", ""),
    ErrorValue(TRUE, "ETIMEDOUT", "Error", "connect ETIMEDOUT", ""),
    ErrorValue(TRUE, "ECONNREFUSED", "Error", "connect ECONNREFUSED", ""),
    ErrorValue(TRUE, "ECONNRESET", "Error", "read ECONNRESET", ""),
    ErrorValue(TRUE, "", "TypeError", "fetch failed", "ENOTFOUND"),
    ErrorValue(TRUE, "", "Error", "socket closed", "UND_ERR_CONNECT_TIMEOUT"),
    ErrorValue(TRUE, "ERR_INVALID_URL", "TypeError", "Invalid URL", ""),
    ErrorValue(FALSE, "", "", "", "") }

\* err.message?.includes("fetch failed")
IncludesFetchFailed(message) == message \in { "fetch failed", "TypeError: fetch failed" }

isRetriableError(error) ==
  IF error.object
  THEN \/ error.code \in { "UND_ERR_CONNECT_TIMEOUT", "ETIMEDOUT",
                           "ECONNREFUSED", "ECONNRESET" }
       \/ error.name = "AbortError"
       \/ IncludesFetchFailed(error.message)
       \/ error.causeCode = "UND_ERR_CONNECT_TIMEOUT"
  ELSE FALSE

\* the same timeout for every attempt
AttemptTimeout_Fixed(baseTimeout, attempt) == baseTimeout

\* const timeout = baseTimeout * attempt
AttemptTimeout(baseTimeout, attempt) == baseTimeout * attempt

\* a backoff that does not grow with the attempt
BackoffMs_Constant(attempt) == BACKOFF_UNIT_MS

\* await sleep(1000 * attempt)
BackoffMs(attempt) == BACKOFF_UNIT_MS * attempt

\* a try block that treats a 5xx response like a network error
OnResponse_RetriesServerErrors(response, attempt, maxRetries) ==
  IF response.status >= 500 /\ attempt < maxRetries THEN "retry" ELSE "return"

\* the try block, lines 352-357: whatever the response, it is returned
OnResponse(response, attempt, maxRetries) == "return"

\* a catch block that sleeps once more after the last allowed attempt
OnError_RetriesPastLimit(error, attempt, maxRetries) ==
  IF ~isRetriableError(error) \/ attempt > maxRetries THEN "throw" ELSE "retry"

\* a catch block that retries whatever was thrown
OnError_RetriesEverything(error, attempt, maxRetries) ==
  IF attempt = maxRetries THEN "throw" ELSE "retry"

\* the catch block, lines 363-373: rethrow or retry
OnError(error, attempt, maxRetries) ==
  IF ~isRetriableError(error) \/ attempt = maxRetries THEN "throw" ELSE "retry"

\* the synthetic error of line 386
MaxRetriesExceeded == ErrorValue(TRUE, "", "Error", "Max retries exceeded", "")

\* a call of fetchWithRetry is about to be made
\* the abort controller of another fetchWithRetry call: its own object
SiblingController == 0

\* one controller for the whole process instead of one per attempt
SignalOf_OnePerProcess(attempt) == SiblingController

\* line 348: const controller = new AbortController() inside the loop body, so
\* the signal of attempt k is the one of a controller no other request has
SignalOf(attempt) == attempt

\* lines 356 and 359: clearTimeout(timeoutId)
ClearTimer(timers, attempt) == timers \ { attempt }

\* the timer that aborted controller c
AbortedBy(c) == (CHOOSE a \in fAborted : a.controller = c).timer
IsAborted(c) == \E a \in fAborted : a.controller = c

FetchInit ==
  /\ now = 0
  /\ serversFile = NoFile
  /\ syncStateFile = NoFile
  /\ runs = 0
  /\ pc = "idle"
  /\ forceFull = FALSE
  /\ existingServers = << >>
  /\ syncState = << >>
  /\ doFullSync = FALSE
  /\ since = << >>
  /\ queriedAt = 0
  /\ entries = << >>
  /\ updatedServers = << >>
  /\ enrichCalled = FALSE
  /\ serversToEnrich = << >>
  /\ queue = << >>
  /\ results = << >>
  /\ startFile = NoFile
  /\ failedAt = ""
  /\ rRequests = << >>
  /\ rPages = << >>
  /\ rAll = << >>
  /\ fPc = "idle"
  /\ fMaxRetries \in 0..MaxRetriesArg
  /\ fBaseTimeout \in { DEFAULT_BASE_TIMEOUT, DEFAULT_BASE_TIMEOUT \div 2 }
  /\ fAttempt = 0
  /\ fTimers = { }
  /\ fRequests = << >>
  /\ fOutcomes = << >>
  /\ fSleeps = << >>
  /\ fLastError = << >>
  /\ fResult = << >>
  /\ fAborted = { }
  /\ fCancels = << >>
  /\ fSibling = "pending"
  /\ cPc = "idle"
  /\ cNow = 0
  /\ cServers = << >>
  /\ cOptions = << >>
  /\ cQueue = << >>
  /\ cResults = << >>
  /\ cTrace = << >>
  /\ cRun = 0
  /\ cFirst = << >>
  /\ sPc = "idle"
  /\ sEnricher = ""
  /\ sServer = << >>
  /\ sRequests = << >>
  /\ sResult = << >>
  /\ kPc = "idle"
  /\ kServer = << >>
  /\ kResult = << >>
  /\ kPrev = << >>
  /\ pPc = "idle"
  /\ pNow = 0
  /\ pServers = << >>
  /\ pOptions = << >>
  /\ pQueue = << >>
  /\ pFlight = << >>
  /\ pResults = << >>
  /\ pEvents = << >>
  /\ pWake = 0
  /\ pagination = << >>

\* lines 345-355: the loop test, the timer of the attempt and its request
BeginAttempt(attempt) ==
  IF attempt <= fMaxRetries
  THEN /\ fAttempt' = attempt
       /\ fTimers' = fTimers \cup { attempt }
       /\ fRequests' = Append(fRequests,
            [attempt |-> attempt, timeout |-> AttemptTimeout(fBaseTimeout, attempt)])
       /\ fPc' = "awaiting"
       /\ fResult' = fResult
  ELSE \* line 386: the loop ended without a return
       /\ fAttempt' = attempt
       /\ fTimers' = fTimers
       /\ fRequests' = fRequests
       /\ fPc' = "thrown"
       /\ fResult' = IF fLastError # << >> THEN fLastError ELSE << MaxRetriesExceeded >>

\* the call: attempt = 1
FetchCall ==
  /\ fPc = "idle"
  /\ BeginAttempt(1)
  /\ UNCHANGED << fMaxRetries, fBaseTimeout, fOutcomes, fSleeps, fLastError >>
  /\ UNCHANGED << fAborted, fCancels, fSibling >>
  /\ UNCHANGED notFetchVars

\* lines 352-357: the request is answered
ResponseArrives ==
  /\ fPc = "awaiting"
  /\ ~IsAborted(SignalOf(fAttempt))
  /\ \E status \in Statuses :
       LET response == Response(status)
       IN /\ fOutcomes' = Append(fOutcomes, response)
          /\ fTimers' = ClearTimer(fTimers, fAttempt)
          /\ IF OnResponse(response, fAttempt, fMaxRetries) = "return"
             THEN /\ fPc' = "returned"
                  /\ fResult' = << response >>
                  /\ fSleeps' = fSleeps
             ELSE /\ fPc' = "sleeping"
                  /\ fResult' = fResult
                  /\ fSleeps' = Append(fSleeps, BackoffMs(fAttempt))
  /\ UNCHANGED << fMaxRetries, fBaseTimeout, fAttempt, fRequests, fLastError >>
  /\ UNCHANGED << fAborted, fCancels, fSibling >>
  /\ UNCHANGED notFetchVars

\* lines 358-382 for the error `error` of the pending request
Catch(error) ==
  /\ fOutcomes' = Append(fOutcomes, error)
  /\ fTimers' = ClearTimer(fTimers, fAttempt)
  /\ fLastError' = << error >>
  /\ IF OnError(error, fAttempt, fMaxRetries) = "throw"
     THEN /\ fPc' = "thrown"
          /\ fResult' = << error >>
          /\ fSleeps' = fSleeps
     ELSE /\ fPc' = "sleeping"
          /\ fResult' = fResult
          /\ fSleeps' = Append(fSleeps, BackoffMs(fAttempt))
  /\ UNCHANGED << fMaxRetries, fBaseTimeout, fAttempt, fRequests >>
  /\ UNCHANGED notFetchVars

\* the request fails on the network; a request whose signal is aborted
\* already is rejected with the abort error
FetchRejects ==
  /\ fPc = "awaiting"
  /\ IF IsAborted(SignalOf(fAttempt))
     THEN /\ Catch(AbortError)
          /\ fCancels' = Append(fCancels,
                [timer |-> AbortedBy(SignalOf(fAttempt)), hit |-> fAttempt])
     ELSE /\ \E error \in NetworkErrors : Catch(error)
          /\ fCancels' = fCancels
  /\ UNCHANGED << fAborted, fSibling >>

\* line 349: the timer of the attempt fires and aborts the pending request
TimerFires ==
  /\ fPc = "awaiting"
  /\ fAttempt \in fTimers
  /\ ~IsAborted(SignalOf(fAttempt))
  /\ LET c == SignalOf(fAttempt)
         hitsSibling == fSibling = "pending" /\ SiblingController = c
     IN /\ fAborted' = fAborted \cup { [controller |-> c, timer |-> fAttempt] }
        /\ fCancels' = fCancels
             \o << [timer |-> fAttempt, hit |-> fAttempt] >>
             \o (IF hitsSibling
                 THEN << [timer |-> fAttempt, hit |-> SiblingController] >>
                 ELSE << >>)
        /\ fSibling' = IF hitsSibling THEN "aborted" ELSE fSibling
  /\ Catch(AbortError)

\* the fetch of the other call is answered
SiblingSettles ==
  /\ fSibling = "pending"
  /\ fPc # "idle"
  /\ fSibling' = "done"
  /\ UNCHANGED << fPc, fMaxRetries, fBaseTimeout, fAttempt, fTimers, fRequests,
                  fOutcomes, fSleeps, fLastError, fResult, fAborted, fCancels >>
  /\ UNCHANGED notFetchVars

\* line 381 is over: the next iteration of the loop
SleepOver ==
  /\ fPc = "sleeping"
  /\ BeginAttempt(fAttempt + 1)
  /\ UNCHANGED << fMaxRetries, fBaseTimeout, fOutcomes, fSleeps, fLastError >>
  /\ UNCHANGED << fAborted, fCancels, fSibling >>
  /\ UNCHANGED notFetchVars

FetchNext ==
  \/ FetchCall
  \/ ResponseArrives
  \/ FetchRejects
  \/ TimerFires
  \/ SleepOver
  \/ SiblingSettles

SpecFetch == FetchInit /\ [][FetchNext]_vars

----------------------------------------------------------------------------
(* Vocabulary of the properties of fetchWithRetry *)

IsResponse(o) == o.kind = "response"
IsRetriableThrow(o) == o.kind = "error" /\ isRetriableError(o)

----------------------------------------------------------------------------
(* C9. fetchWithRetry returns any received response as-is on the attempt that
   received it, whatever its status: the response ends the call, no request
   and no backoff sleep follows it. *)
C9_ResponseReturnedAsIs ==
  \A k \in 1..Len(fOutcomes) :
    IsResponse(fOutcomes[k]) =>
      /\ k = Len(fOutcomes)
      /\ fPc = "returned"
      /\ fResult = << fOutcomes[k] >>
      /\ Len(fRequests) = k
      /\ Len(fSleeps) = k - 1

\* a 404 on the first attempt is returned with zero retries although two
\* more attempts were allowed
C9_Witness404 ==
  /\ fPc = "returned" /\ fMaxRetries = 3
  /\ fOutcomes = << Response(404) >>
  /\ fResult = << Response(404) >>
  /\ fSleeps = << >>

----------------------------------------------------------------------------
(* C10. Linear backoff: when attempt k < maxRetries throws a retriable error,
   the function sleeps 1000*k ms and then issues request k+1; with
   maxRetries = 3, attempts 1 and 2 throwing a retriable error and attempt 3
   answered, the call returns that response after sleeping 1000 ms and then
   2000 ms, having issued exactly 3 requests. *)
C10_LinearBackoff ==
  /\ \A k \in 1..Len(fOutcomes) :
       (k < fMaxRetries /\ IsRetriableThrow(fOutcomes[k])) =>
         /\ Len(fSleeps) >= k
         /\ fSleeps[k] = 1000 * k
         /\ (fPc # "sleeping" \/ k < Len(fOutcomes)) =>
              (Len(fRequests) >= k + 1 /\ fRequests[k + 1].attempt = k + 1)
  /\ ( /\ fMaxRetries = 3
       /\ Len(fOutcomes) = 3
       /\ IsRetriableThrow(fOutcomes[1])
       /\ IsRetriableThrow(fOutcomes[2])
       /\ IsResponse(fOutcomes[3]) ) =>
         /\ fPc = "returned"
         /\ fResult = << fOutcomes[3] >>
         /\ fSleeps = << 1000, 2000 >>
         /\ Len(fRequests) = 3

\* two timeouts, then an answer
C10_Witness ==
  /\ fMaxRetries = 3
  /\ Len(fOutcomes) = 3
  /\ fOutcomes[1] = AbortError
  /\ IsRetriableThrow(fOutcomes[2])
  /\ fOutcomes[3] = Response(200)
  /\ fPc = "returned"
  /\ fSleeps = << 1000, 2000 >>

----------------------------------------------------------------------------
(* C11. Retry exhaustion: when every attempt throws a retriable error, never
   more than maxRetries requests are issued; once the call has ended exactly
   maxRetries requests were issued, no sleep followed the last attempt and
   the error of the last attempt is what the caller gets.  The call never
   returns a response that no request received. *)
C11_RetryExhaustion ==
  /\ Len(fRequests) <= fMaxRetries
  /\ (fPc = "returned") =>
       (fOutcomes # << >> /\ fResult = << fOutcomes[Len(fOutcomes)] >>
          /\ IsResponse(fOutcomes[Len(fOutcomes)]))
  /\ ( /\ fMaxRetries >= 1
       /\ Len(fOutcomes) = fMaxRetries
       /\ \A k \in 1..Len(fOutcomes) : IsRetriableThrow(fOutcomes[k]) ) =>
         /\ fPc = "thrown"
         /\ Len(fRequests) = fMaxRetries
         /\ Len(fSleeps) = fMaxRetries - 1
         /\ fResult = << fOutcomes[fMaxRetries] >>

\* three retriable errors of different kinds, the third one surfaces
C11_Witness ==
  /\ fMaxRetries = 3
  /\ fPc = "thrown"
  /\ Len(fOutcomes) = 3
  /\ fOutcomes[1] = AbortError
  /\ fOutcomes[2] = ErrorValue(TRUE, "ECONNRESET", "Error", "read ECONNRESET", "")
  /\ fOutcomes[3] = ErrorValue(TRUE, "ECONNREFUSED", "Error", "connect ECONNREFUSED", "")
  /\ fResult = << fOutcomes[3] >>
  /\ fSleeps = << 1000, 2000 >>

----------------------------------------------------------------------------
(* C12. A thrown error that is none of connection timeout, refused, reset,
   abort or generic fetch failure is rethrown at once, on whatever attempt:
   it is the last outcome of the call, the caller gets it, no sleep and no
   request follow it. *)
C12_ListedAsRetriable(o) ==
  /\ o.object
  /\ \/ o.code \in { "UND_ERR_CONNECT_TIMEOUT", "ETIMEDOUT", "ECONNREFUSED", "ECONNRESET" }
     \/ o.name = "AbortError"
     \/ o.message = "fetch failed"
     \/ o.causeCode = "UND_ERR_CONNECT_TIMEOUT"

C12_NonRetriableFailsAtOnce ==
  \A k \in 1..Len(fOutcomes) :
    (fOutcomes[k].kind = "error" /\ ~C12_ListedAsRetriable(fOutcomes[k])) =>
      /\ k = Len(fOutcomes)
      /\ fPc = "thrown"
      /\ fResult = << fOutcomes[k] >>
      /\ Len(fRequests) = k
      /\ Len(fSleeps) = k - 1

\* an invalid URL on the second attempt, with a third attempt still allowed
C12_Witness ==
  /\ fMaxRetries = 3
  /\ Len(fOutcomes) = 2
  /\ IsRetriableThrow(fOutcomes[1])
  /\ fOutcomes[2] = ErrorValue(TRUE, "ERR_INVALID_URL", "TypeError", "Invalid URL", "")
  /\ fPc = "thrown"
  /\ fResult = << fOutcomes[2] >>
  /\ fSleeps = << 1000 >>

----------------------------------------------------------------------------
(* C13. Progressive timeout: request i carries the timeout baseTimeout * i;
   a request cancelled by its timer counts as a retriable error, so that on
   an attempt before the last one a sleep and then the next request follow
   it, and the timer of an attempt that is over is never left armed. *)
C13_ProgressiveTimeout ==
  /\ \A i \in 1..Len(fRequests) :
       fRequests[i].attempt = i /\ fRequests[i].timeout = fBaseTimeout * i
  /\ \A k \in 1..Len(fOutcomes) :
       (fOutcomes[k] = AbortError /\ k < fMaxRetries) =>
         /\ Len(fSleeps) >= k
         /\ fSleeps[k] = 1000 * k
         /\ (fPc # "sleeping" \/ k < Len(fOutcomes)) =>
              (Len(fRequests) >= k + 1 /\ fRequests[k + 1].timeout = fBaseTimeout * (k + 1))
  /\ fTimers \subseteq (IF fPc = "awaiting" THEN { fAttempt } ELSE { })

\* 10 s, 20 s, 30 s: the first two requests are cancelled by their timers
C13_Witness ==
  /\ fBaseTimeout = 10000
  /\ Len(fRequests) = 3
  /\ fRequests[1].timeout = 10000
  /\ fRequests[2].timeout = 20000
  /\ fRequests[3].timeout = 30000
  /\ fOutcomes = << AbortError, AbortError >>
  /\ fPc = "awaiting"

----------------------------------------------------------------------------
(* scripts/enrichers/index.ts: enrichServers called on its own, twice in a row *)

\* the longest servers argument tried
MaxCoordServers == 2

DEFAULT_OPTIONS ==
  [delayMs |-> 100, concurrency |-> 3, skipIfFresh |-> TRUE, maxAge |-> SYNC_MAX_AGE]

\* const opts = { ...DEFAULT_OPTIONS, ...options }
MergedOptions(options) == ObjectAssign(DEFAULT_OPTIONS, options)

\* the options arguments tried: none, those of sync() in both modes, one at a time
CoordOptionsPool ==
  { << >>, SyncEnrichOptions(TRUE), SyncEnrichOptions(FALSE), [concurrency |-> 1] }

\* an active server with a repository on GitHub and an npm package
EntryTwoSources(n) == RegistryEntry(n, "both", "1.0.0", << GitHubRepository >>,
                << << NpmPackage >> >>, << >>, "active",
                "2025-01-01", "2025-01-01", TRUE)

\* the records handed to the coordinator: one never enriched, one enriched
\* at time 0, one never enriched that two enrichers find an identifier on
CoordNever == convertRegistryEntry(EntryV1(<< "a", "/", "t" >>))
CoordStamped ==
  [convertRegistryEntry(EntryV1(<< "b" >>)) EXCEPT !.enrichment =
     [lastEnrichedAt |-> toISOString(0),
      npm |-> [weeklyDownloads |-> 1, monthlyDownloads |-> 4]]]
CoordTwoSources == convertRegistryEntry(EntryTwoSources(<< "c" >>))
CoordPool == { CoordNever, CoordStamped, CoordTwoSources }

\* arrays of distinct records
CoordInputs ==
  { ss \in SeqsUpTo(CoordPool, MaxCoordServers) :
      ss # << >> /\ \A i, j \in 1..Len(ss) : i # j => ss[i] # ss[j] }

\* the clock when the first call is made, and the pause before the second
CoordStarts == { SYNC_MAX_AGE - 1, SYNC_MAX_AGE }
CoordGaps == { 0, SYNC_MAX_AGE }

CoordInit ==
  /\ now = 0
  /\ serversFile = NoFile
  /\ syncStateFile = NoFile
  /\ runs = 0
  /\ pc = "idle"
  /\ forceFull = FALSE
  /\ existingServers = << >>
  /\ syncState = << >>
  /\ doFullSync = FALSE
  /\ since = << >>
  /\ queriedAt = 0
  /\ entries = << >>
  /\ updatedServers = << >>
  /\ enrichCalled = FALSE
  /\ serversToEnrich = << >>
  /\ queue = << >>
  /\ results = << >>
  /\ startFile = NoFile
  /\ failedAt = ""
  /\ rRequests = << >>
  /\ rPages = << >>
  /\ rAll = << >>
  /\ fPc = "idle"
  /\ fMaxRetries = 0
  /\ fBaseTimeout = 0
  /\ fAttempt = 0
  /\ fTimers = { }
  /\ fRequests = << >>
  /\ fOutcomes = << >>
  /\ fSleeps = << >>
  /\ fLastError = << >>
  /\ fResult = << >>
  /\ fAborted = { }
  /\ fCancels = << >>
  /\ fSibling = "pending"
  /\ cPc = "idle"
  /\ cNow \in CoordStarts
  /\ cServers \in CoordInputs
  /\ cOptions \in CoordOptionsPool
  /\ cQueue = << >>
  /\ cResults = << >>
  /\ cTrace = << >>
  /\ cRun = 0
  /\ cFirst = << >>
  /\ sPc = "idle"
  /\ sEnricher = ""
  /\ sServer = << >>
  /\ sRequests = << >>
  /\ sResult = << >>
  /\ kPc = "idle"
  /\ kServer = << >>
  /\ kResult = << >>
  /\ kPrev = << >>
  /\ pPc = "idle"
  /\ pNow = 0
  /\ pServers = << >>
  /\ pOptions = << >>
  /\ pQueue = << >>
  /\ pFlight = << >>
  /\ pResults = << >>
  /\ pEvents = << >>
  /\ pWake = 0
  /\ pagination = << >>

\* lines 102-110: enrichServers(cServers, cOptions) is called
CoordCall ==
  /\ cPc = "idle"
  /\ cRun' = cRun + 1
  /\ cQueue' = cServers
  /\ cResults' = << >>
  /\ cPc' = "running"
  /\ UNCHANGED << cNow, cServers, cOptions, cTrace, cFirst >>
  /\ UNCHANGED notCoordVars

\* lines 113-125: one iteration of the while loop
CoordBatch ==
  /\ cPc = "running"
  /\ cQueue # << >>
  /\ LET opts == MergedOptions(cOptions)
         cut == SpliceBatch(cQueue, opts.concurrency)
     IN /\ \E os \in BatchOutcomes(cut.batch) :
             LET out == EnrichBatchResults(cut.batch, opts, cNow, os)
             IN /\ cResults' = cResults \o out
                /\ cTrace' = cTrace \o
                     [i \in 1..Len(cut.batch) |->
                        [run |-> cRun, input |-> cut.batch[i], at |-> cNow,
                         outcomes |-> os[i], output |-> out[i],
                         inputAfter |-> ArgumentAfter(cut.batch[i], opts, cNow, os[i]),
                         called |-> EnrichersCalled(cut.batch[i], opts, cNow),
                         network |-> NetworkCalls(cut.batch[i], opts, cNow)]]
        /\ cQueue' = cut.rest
        /\ cNow' = cNow + BatchSleep(cut.batch, cut.rest, opts, cNow)
  /\ UNCHANGED << cPc, cServers, cOptions, cRun, cFirst >>
  /\ UNCHANGED notCoordVars

\* line 138: return results
CoordReturn ==
  /\ cPc = "running"
  /\ cQueue = << >>
  /\ cPc' = "returned"
  /\ cFirst' = IF cRun = 1 THEN cResults ELSE cFirst
  /\ UNCHANGED << cNow, cServers, cOptions, cQueue, cResults, cTrace, cRun >>
  /\ UNCHANGED notCoordVars

\* the caller hands the output of the first call to a second call, at once or
\* a day later
CoordAgain ==
  /\ cPc = "returned"
  /\ cRun = 1
  /\ cServers' = cResults
  /\ \E gap \in CoordGaps : cNow' = cNow + gap
  /\ cPc' = "idle"
  /\ UNCHANGED << cOptions, cQueue, cResults, cTrace, cRun, cFirst >>
  /\ UNCHANGED notCoordVars

CoordNext ==
  \/ CoordCall
  \/ CoordBatch
  \/ CoordReturn
  \/ CoordAgain

SpecCoord == CoordInit /\ [][CoordNext]_vars

----------------------------------------------------------------------------
(* Vocabulary of the properties of the coordinator *)

\* the entries of the trace made by call number r
TraceOfRun(r) == SelectSeq(cTrace, LAMBDA e : e.run = r)

\* the keys the data of the outcomes carry
DataKeys(outcomes) ==
  UNION { DOMAIN outcomes[i].value : i \in { j \in 1..Len(outcomes) : outcomes[j].kind = "data" } }

\* const lastEnriched = server.enrichment?.lastEnrichedAt of a record
StampOf(server) == server.enrichment.lastEnrichedAt

----------------------------------------------------------------------------
(* C14. Freshness check: a record handed to enrichServer with skipIfFresh
   true and now - lastEnrichedAt < maxAge comes back unchanged and none of
   the enrichers is called for it; a record whose lastEnrichedAt is empty is
   never taken for fresh: every enricher is called and it is stamped. *)
C14_FreshRecordsAreSkipped ==
  \A k \in 1..Len(cTrace) :
    LET e == cTrace[k]
        opts == MergedOptions(cOptions)
    IN /\ ( /\ opts.skipIfFresh
            /\ StampOf(e.input) # << >>
            /\ e.at - StampOf(e.input)[1] < opts.maxAge ) =>
              (e.output = e.input /\ e.called = << >> /\ e.network = << >>)
       /\ (StampOf(e.input) = << >>) =>
              (e.called = Enrichers /\ StampOf(e.output) = << e.at >>)

\* a record enriched one millisecond less than maxAge ago is skipped, next
\* to a record never enriched, which is not
C14_Witness ==
  /\ MergedOptions(cOptions).skipIfFresh
  /\ Len(cTrace) = 2
  /\ cTrace[1].input = CoordStamped
  /\ cTrace[1].at = SYNC_MAX_AGE - 1
  /\ cTrace[1].output = CoordStamped
  /\ cTrace[1].called = << >>
  /\ cTrace[2].input = CoordNever
  /\ cTrace[2].called = Enrichers
  /\ cTrace[2].network = << "npm" >>

----------------------------------------------------------------------------
(* C15. Idempotence: when enrichServers is run a second time on the output of
   the first run, with skipIfFresh true, and the second run ends inside the
   freshness window of every record, the second run makes no network call
   (it calls no enricher) and returns the records of the first run, equal
   field by field. *)
SecondRunInsideWindow ==
  /\ cRun = 2
  /\ cPc = "returned"
  /\ MergedOptions(cOptions).skipIfFresh
  /\ \A i \in 1..Len(cFirst) :
       /\ StampOf(cFirst[i]) # << >>
       /\ cNow - StampOf(cFirst[i])[1] < MergedOptions(cOptions).maxAge

C15_SecondRunIsIdle ==
  SecondRunInsideWindow =>
    /\ \A k \in 1..Len(cTrace) :
         cTrace[k].run = 2 => (cTrace[k].network = << >> /\ cTrace[k].called = << >>)
    /\ Len(TraceOfRun(2)) = Len(cFirst)
    /\ cResults = cFirst

\* the first run asked npm and GitHub for both of its records, the second
\* run asked nobody
C15_Witness ==
  /\ SecondRunInsideWindow
  /\ Len(cFirst) = 2
  /\ \A k \in 1..Len(cTrace) :
       cTrace[k].run = 1 => cTrace[k].network # << >>
  /\ \E k \in 1..Len(cTrace) :
       cTrace[k].run = 1 /\ cTrace[k].outcomes[2].kind = "data"
  /\ cResults = cFirst

----------------------------------------------------------------------------
(* C16. Failure isolation: an enricher that throws is treated as absent for
   its source; the other enrichers of the record still run and their data is
   in the record returned; the other records of the batch and the later
   batches are processed, so that enrichServers returns one record for each
   record it was given, in the order given. *)
C16_FailureIsolation ==
  /\ \A k \in 1..Len(cTrace) :
       LET e == cTrace[k]
           in == e.input.enrichment
           out == e.output.enrichment
       IN (e.called # << >>) =>
            /\ e.called = Enrichers
            /\ DOMAIN out = DOMAIN in \cup { "lastEnrichedAt" } \cup DataKeys(e.outcomes)
            /\ \A i \in 1..Len(e.outcomes) :
                 e.outcomes[i].kind = "data" =>
                   \A key \in DOMAIN e.outcomes[i].value :
                     out[key] = e.outcomes[i].value[key]
            /\ \A key \in DOMAIN in \ (DataKeys(e.outcomes) \cup { "lastEnrichedAt" }) :
                 out[key] = in[key]
  /\ (cPc = "returned") =>
       /\ Len(cResults) = Len(cServers)
       /\ \A i \in 1..Len(cServers) : cResults[i].name = cServers[i].name
       /\ Len(TraceOfRun(cRun)) = Len(cServers)

\* GitHub throws for the first record and npm still answers for it; the
\* record of the next batch is enriched as well
C16_Witness ==
  /\ cPc = "returned"
  /\ cRun = 1
  /\ MergedOptions(cOptions).concurrency = 1
  /\ Len(cTrace) = 2
  /\ cTrace[1].input = CoordTwoSources
  /\ cTrace[1].outcomes[1].kind = "throw"
  /\ cTrace[1].outcomes[2].kind = "data"
  /\ "npm" \in DOMAIN cTrace[1].output.enrichment
  /\ "github" \notin DOMAIN cTrace[1].output.enrichment
  /\ cTrace[2].input = CoordNever
  /\ cTrace[2].outcomes[2].kind = "throw"
  /\ cTrace[2].called = Enrichers
  /\ Len(cResults) = 2

----------------------------------------------------------------------------
(* scripts/enrichers/{github,npm,pypi,nuget,docker,mcpb}.ts: one source
   enricher called on one record.  A request ends with a response (a status
   and a body that parses as JSON or does not) or with a rejected promise
   (fetch: a network error; fetchWithRetry: a non-retriable error or the
   error of the last attempt). *)

NuGetPackage  == [registryType |-> "nuget", identifier |-> "Acme.Tool"]
DockerPackage == [registryType |-> "oci",   identifier |-> "acme/tool"]
GhcrPackage   == [registryType |-> "oci",   identifier |-> "ghcr.io/acme/tool"]
McpbPackage   == [registryType |-> "mcpb",
                  identifier |-> "https://github.com/acme/tool/releases/tag/v1"]
GitLabRepository == [url |-> "https://gitlab.com/acme/tool", source |-> "gitlab"]

\* a server every enricher finds its identifier on
EntryEverySource(n) == RegistryEntry(n, "all", "1.0.0", << GitHubRepository >>,
                << << NpmPackage, PyPiPackage, NuGetPackage, DockerPackage,
                      McpbPackage >> >>, << >>, "active",
                "2025-01-01", "2025-01-01", TRUE)
\* a server without repository and without packages
EntryBare(n) == RegistryEntry(n, "bare", "1.0.0", << >>, << >>, << >>, "active",
                "2025-01-01", "2025-01-01", TRUE)
\* a repository that is not on GitHub and an image that is not on Docker Hub
EntryElsewhere(n) == RegistryEntry(n, "else", "1.0.0", << GitLabRepository >>,
                << << GhcrPackage >> >>, << >>, "active",
                "2025-01-01", "2025-01-01", TRUE)

SourceServers ==
  { convertRegistryEntry(EntryEverySource(<< "a", "/", "t" >>)),
    convertRegistryEntry(EntryBare(<< "b" >>)),
    convertRegistryEntry(EntryV2(<< "a", "/", "t" >>)),
    convertRegistryEntry(EntryElsewhere(<< "b" >>)) }

\* parseDockerImage(identifier).registry === "docker.io", on the identifiers above
IsDockerHubImage(identifier) == identifier \in { "acme/tool" }
\* parseMcpbIdentifier(identifier) !== null, on the identifiers above
IsReleaseUrl(identifier) ==
  identifier \in { "https://github.com/acme/tool/releases/tag/v1" }

\* what the enricher asks the source about: << >> when it returns null before
\* any request (identifier missing, not parsed, or not a Docker Hub image)
Target(name, server) ==
  LET id == FindIdentifier(name, server)
  IN IF id = << >> THEN << >>
     ELSE IF name = "Docker" /\ ~IsDockerHubImage(id[1]) THEN << >>
     ELSE IF name = "MCPB" /\ ~IsReleaseUrl(id[1]) THEN << >>
     ELSE id

\* the requests of an enricher: the primary metadata call first, then the
\* calls started next to it by Promise.all
SubCalls(name) ==
  CASE name = "GitHub" -> << "repo" >>
    [] name = "npm"    -> << "package", "last-week", "last-month" >>
    [] name = "PyPI"   -> << "package", "recent" >>
    [] name = "NuGet"  -> << "search" >>
    [] name = "Docker" -> << "repo", "tags" >>
    [] OTHER           -> << "release" >>

Rejected == [kind |-> "rejected"]
Answered(status, body) == [kind |-> "answered", status |-> status, body |-> body]

\* how a request can end
RequestOutcomes ==
  { Rejected, Answered(200, "json"), Answered(200, "garbled"),
    Answered(404, ""), Answered(403, ""), Answered(429, ""), Answered(500, "") }

\* response.ok
Ok(o) == o.status >= 200 /\ o.status <= 299

\* the statuses the primary call of the enricher tests by name before !response.ok
NamedStatuses(name) ==
  CASE name = "GitHub" -> { 404, 403 }
    [] name = "npm"    -> { 404 }
    [] name = "PyPI"   -> { 404 }
    [] name = "Docker" -> { 404, 429 }
    [] OTHER           -> { }

\* a primary call that takes a 404 for an error
PrimaryResult_ThrowsOnNotFound(name, o) ==
  IF o.kind = "rejected" THEN "throw"
  ELSE IF o.status = 404 THEN "throw"
  ELSE IF ~Ok(o) THEN "null"
  ELSE IF o.body = "garbled" THEN "throw"
  ELSE "data"

\* fetchRepoData / fetchPackageData / fetchPackageSearch / fetch*Release: the
\* await of the request is not in a try block, nor is response.json()
PrimaryResult(name, o) ==
  IF o.kind = "rejected" THEN "throw"
  ELSE IF o.status \in NamedStatuses(name) THEN "null"
  ELSE IF ~Ok(o) THEN "null"
  ELSE IF o.body = "garbled" THEN "throw"
  ELSE "data"

\* the figure a secondary call reads from a body that parses
SecondaryFigure(call) ==
  CASE call = "last-week" -> 1200
    [] call = "last-month" -> 5000
    [] call = "recent" -> 300
    [] OTHER -> << "latest" >>

\* what a secondary call returns when it gives up
SecondaryFallback(call) == IF call = "tags" THEN << >> ELSE 0

Threw == [kind |-> "throw"]
Value(v) == [kind |-> "value", value |-> v]

\* fetchDownloads of npm.ts and fetchTags have no try block; fetchDownloads
\* of pypi.ts wraps the request and response.json() in try/catch
SecondaryResult(name, call, o) ==
  IF name = "PyPI"
  THEN IF o.kind = "rejected" THEN Value(SecondaryFallback(call))
       ELSE IF ~Ok(o) THEN Value(SecondaryFallback(call))
       ELSE IF o.body = "garbled" THEN Value(SecondaryFallback(call))
       ELSE Value(SecondaryFigure(call))
  ELSE IF o.kind = "rejected" THEN Threw
       ELSE IF ~Ok(o) THEN Value(SecondaryFallback(call))
       ELSE IF o.body = "garbled" THEN Threw
       ELSE Value(SecondaryFigure(call))

\* the object the enricher returns, secs the values of its secondary calls
Assemble(name, secs) ==
  CASE name = "GitHub" -> [github |-> [stars |-> 7]]
    [] name = "npm"    -> [npm |-> [weeklyDownloads |-> secs[1], monthlyDownloads |-> secs[2]]]
    [] name = "PyPI"   -> [pypi |-> [downloads |-> secs[1]]]
    [] name = "NuGet"  -> [nuget |-> [totalDownloads |-> 40]]
    [] name = "Docker" -> [docker |-> [pulls |-> 9, tags |-> secs[1]]]
    [] OTHER           -> [mcpb |-> [downloadCount |-> 2]]

\* the enricher once every request has ended with outcomes[i]: an await of a
\* rejected promise (Promise.all included) throws out of the enricher
EnricherResult(name, outcomes) ==
  LET calls == SubCalls(name)
      primary == PrimaryResult(name, outcomes[1])
      secs == [i \in 1..(Len(calls) - 1) |->
                 SecondaryResult(name, calls[i + 1], outcomes[i + 1])]
  IN IF primary = "throw" \/ \E i \in 1..Len(secs) : secs[i] = Threw
     THEN ThrowOutcome
     ELSE IF primary = "null" THEN NullOutcome
     ELSE DataOutcome(Assemble(name, [i \in 1..Len(secs) |-> secs[i].value]))

\* one outcome for each request of the enricher
RECURSIVE OutcomeSeqs(_)
OutcomeSeqs(n) ==
  IF n = 0 THEN { << >> }
  ELSE { Append(os, o) : os \in OutcomeSeqs(n - 1), o \in RequestOutcomes }

SourceInit ==
  /\ now = 0
  /\ serversFile = NoFile
  /\ syncStateFile = NoFile
  /\ runs = 0
  /\ pc = "idle"
  /\ forceFull = FALSE
  /\ existingServers = << >>
  /\ syncState = << >>
  /\ doFullSync = FALSE
  /\ since = << >>
  /\ queriedAt = 0
  /\ entries = << >>
  /\ updatedServers = << >>
  /\ enrichCalled = FALSE
  /\ serversToEnrich = << >>
  /\ queue = << >>
  /\ results = << >>
  /\ startFile = NoFile
  /\ failedAt = ""
  /\ rRequests = << >>
  /\ rPages = << >>
  /\ rAll = << >>
  /\ fPc = "idle"
  /\ fMaxRetries = 0
  /\ fBaseTimeout = 0
  /\ fAttempt = 0
  /\ fTimers = { }
  /\ fRequests = << >>
  /\ fOutcomes = << >>
  /\ fSleeps = << >>
  /\ fLastError = << >>
  /\ fResult = << >>
  /\ fAborted = { }
  /\ fCancels = << >>
  /\ fSibling = "pending"
  /\ cPc = "idle"
  /\ cNow = 0
  /\ cServers = << >>
  /\ cOptions = << >>
  /\ cQueue = << >>
  /\ cResults = << >>
  /\ cTrace = << >>
  /\ cRun = 0
  /\ cFirst = << >>
  /\ sPc = "idle"
  /\ sEnricher \in Range(Enrichers)
  /\ sServer \in SourceServers
  /\ sRequests = << >>
  /\ sResult = << >>
  /\ kPc = "idle"
  /\ kServer = << >>
  /\ kResult = << >>
  /\ kPrev = << >>
  /\ pPc = "idle"
  /\ pNow = 0
  /\ pServers = << >>
  /\ pOptions = << >>
  /\ pQueue = << >>
  /\ pFlight = << >>
  /\ pResults = << >>
  /\ pEvents = << >>
  /\ pWake = 0
  /\ pagination = << >>

\* the enricher looks for its identifier and returns null, or starts its requests
SourceCall ==
  /\ sPc = "idle"
  /\ IF Target(sEnricher, sServer) = << >>
     THEN /\ sPc' = "returned"
          /\ sResult' = << NullOutcome >>
          /\ sRequests' = << >>
     ELSE /\ sPc' = "awaiting"
          /\ sResult' = << >>
          /\ sRequests' = [i \in 1..Len(SubCalls(sEnricher)) |->
                             [call |-> SubCalls(sEnricher)[i], outcome |-> << >>]]
  /\ UNCHANGED << sEnricher, sServer >>
  /\ UNCHANGED notSourceVars

\* the requests end and the enricher returns or throws
SourceSettle ==
  /\ sPc = "awaiting"
  /\ \E os \in OutcomeSeqs(Len(sRequests)) :
       LET result == EnricherResult(sEnricher, os)
       IN /\ sRequests' = [i \in 1..Len(sRequests) |->
                             [call |-> sRequests[i].call, outcome |-> << os[i] >>]]
          /\ sResult' = << result >>
          /\ sPc' = IF result = ThrowOutcome THEN "thrown" ELSE "returned"
  /\ UNCHANGED << sEnricher, sServer >>
  /\ UNCHANGED notSourceVars

SourceNext ==
  \/ SourceCall
  \/ SourceSettle

SpecSource == SourceInit /\ [][SourceNext]_vars

----------------------------------------------------------------------------
(* Vocabulary of the properties of the source enrichers *)

\* the enricher is over, having issued requests
Settled == sPc \in { "returned", "thrown" } /\ sRequests # << >>

\* how request i of the enricher ended
OutcomeOf(i) == sRequests[i].outcome[1]

\* a request that failed: a response that is not a success, or a rejection
Failed(o) == o.kind = "rejected" \/ ~Ok(o)

\* the field of the returned object that secondary call `call` fills
FieldOf(call) ==
  CASE call = "last-week" -> "weeklyDownloads"
    [] call = "last-month" -> "monthlyDownloads"
    [] call = "recent" -> "downloads"
    [] OTHER -> "tags"

\* the key of the Enrichment object the enricher fills
SlotOf(name) ==
  CASE name = "GitHub" -> "github" [] name = "npm" -> "npm" [] name = "PyPI" -> "pypi"
    [] name = "NuGet" -> "nuget" [] name = "Docker" -> "docker" [] OTHER -> "mcpb"

----------------------------------------------------------------------------
(* C17. No source enricher ever throws to its caller: whatever its requests
   end with, a rejected request and a body that does not parse included, it
   returns null or data.  (Refuted: see the trace of this invariant.) *)
C17_EnrichersNeverThrow == sPc # "thrown"

\* what does hold: an enricher throws only when one of its requests was
\* rejected or answered with a body that does not parse
C17_ThrowsOnlyOnRejectionOrBadBody ==
  (sPc = "thrown") =>
    \E i \in 1..Len(sRequests) :
      \/ OutcomeOf(i).kind = "rejected"
      \/ (OutcomeOf(i).kind = "answered" /\ OutcomeOf(i).body = "garbled")

----------------------------------------------------------------------------
(* C18. An enricher whose identifier is missing on the record (no package of
   the registry type of the source; for GitHub no repository, or one that is
   not on github.com) returns null and issues no request. *)
IdentifierMissing ==
  IF sEnricher = "GitHub"
  THEN sServer.repository = << >> \/ ~IncludesGitHub(sServer.repository[1].url)
  ELSE \A i \in 1..Len(sServer.packages) :
         sServer.packages[i].registryType # EnricherRegistryType(sEnricher)

C18_NoIdentifierNoRequest ==
  (sPc # "idle" /\ IdentifierMissing) =>
    (sPc = "returned" /\ sRequests = << >> /\ sResult = << NullOutcome >>)

\* enrichNpm on a record whose only package is a container image
C18_Witness ==
  /\ sEnricher = "npm"
  /\ sServer = convertRegistryEntry(EntryElsewhere(<< "b" >>))
  /\ sPc = "returned"
  /\ sRequests = << >>
  /\ sResult = << NullOutcome >>

----------------------------------------------------------------------------
(* C19. A 404 and a rate-limit answer (403, 429) to the primary call of an
   enricher are not failures: the enricher returns null and does not throw,
   its other requests not having thrown on their own. *)
C19_AbsenceIsNotFailure ==
  ( /\ Settled
    /\ OutcomeOf(1).kind = "answered"
    /\ OutcomeOf(1).status \in { 404, 403, 429 }
    /\ \A i \in 2..Len(sRequests) :
         /\ OutcomeOf(i).kind = "answered"
         /\ OutcomeOf(i).body # "garbled" ) =>
      (sPc = "returned" /\ sResult = << NullOutcome >>)

\* Docker Hub answers 429 for the repository while the tags are served
C19_Witness ==
  /\ sEnricher = "Docker"
  /\ Settled
  /\ OutcomeOf(1) = Answered(429, "")
  /\ OutcomeOf(2) = Answered(200, "json")
  /\ sPc = "returned"
  /\ sResult = << NullOutcome >>

----------------------------------------------------------------------------
(* C20. Sub-call degradation in npm, PyPI and Docker: with the primary call
   answered, a secondary call that fails (a response that is not a success,
   or a rejected request) only puts its fallback (0, or no tags) in its own
   field and the data of the source is returned; the result is null only if
   the primary call fails.  (Refuted: see the trace of this invariant.) *)
C20_SecondaryFailureDegradesOwnField ==
  ( /\ Settled
    /\ Len(sRequests) > 1
    /\ OutcomeOf(1) = Answered(200, "json") ) =>
      /\ sPc = "returned"
      /\ sResult[1].kind = "data"
      /\ \A i \in 2..Len(sRequests) :
           Failed(OutcomeOf(i)) =>
             sResult[1].value[SlotOf(sEnricher)][FieldOf(sRequests[i].call)]
               = SecondaryFallback(sRequests[i].call)

\* what does hold: a secondary call answered with a failure status degrades
\* its own field only, and so does a rejected one in pypi.ts
C20_FailureStatusDegradesOwnField ==
  ( /\ Settled
    /\ Len(sRequests) > 1
    /\ OutcomeOf(1) = Answered(200, "json")
    /\ \A i \in 2..Len(sRequests) :
         \/ sEnricher = "PyPI"
         \/ OutcomeOf(i) = Answered(200, "json")
         \/ (OutcomeOf(i).kind = "answered" /\ ~Ok(OutcomeOf(i))) ) =>
      /\ sPc = "returned"
      /\ sResult[1].kind = "data"
      /\ \A i \in 2..Len(sRequests) :
           sResult[1].value[SlotOf(sEnricher)][FieldOf(sRequests[i].call)]
             = IF OutcomeOf(i) = Answered(200, "json")
               THEN SecondaryFigure(sRequests[i].call)
               ELSE SecondaryFallback(sRequests[i].call)

----------------------------------------------------------------------------
(* Vocabulary of the properties of the registry client *)

\* the entries of page k that are flagged as the latest version
RetainedOf(k) == SelectSeq(rPages[k].servers, LAMBDA e : e.meta.isLatest)

\* the run is past its fetch and the last page request was never answered
\* with a page
RegistryFailed == pc \notin { "idle", "fetch" } /\ Len(rRequests) > Len(rPages)

----------------------------------------------------------------------------
(* C21. Pagination: the first page is requested without cursor, every later
   request carries the cursor of the page before it, every request carries
   the same updated-since bound (none in a full sync, lastSyncAt of the
   sync state in an incremental one), a page is followed by a request
   exactly when it carries a cursor, and what the fetch returns is the
   concatenation, in page order, of the retained entries of all pages. *)
C21_Pagination ==
  /\ (pc # "idle") => (rRequests # << >> /\ rRequests[1].cursor = << >>)
  /\ \A k \in 1..Len(rRequests) :
       /\ rRequests[k].updatedSince = since
       /\ (k > 1) => (rRequests[k].cursor = rPages[k - 1].nextCursor
                        /\ rRequests[k].cursor # << >>)
  /\ (pc # "idle") =>
       /\ doFullSync <=> (since = << >>)
       /\ (~doFullSync) => since = << syncState[1].lastSyncAt >>
  /\ \A k \in 1..Len(rPages) :
       (k < Len(rRequests)) <=> (rPages[k].nextCursor # << >>)
  /\ MergeDone =>
       /\ Len(rRequests) = Len(rPages)
       /\ entries = Concat([k \in 1..Len(rPages) |-> RetainedOf(k)])

\* an incremental sync served in two pages, each with an entry that is kept
C21_Witness ==
  /\ MergeDone
  /\ ~doFullSync
  /\ Len(rPages) = 2
  /\ RetainedOf(1) # << >>
  /\ RetainedOf(2) # << >>
  /\ rRequests[2] = PageRequest(<< "cursor-1" >>, since)
  /\ entries = RetainedOf(1) \o RetainedOf(2)

----------------------------------------------------------------------------
(* C22. Only latest versions are retained: every entry the fetch returns is
   flagged isLatest, the entries served that are not flagged are not among
   them (and no flagged one is lost), and every record of the snapshot has
   isLatest = TRUE. *)
C22_OnlyLatestRetained ==
  /\ \A i \in 1..Len(rAll) : rAll[i].meta.isLatest
  /\ \A i \in 1..Len(entries) : entries[i].meta.isLatest
  /\ MergeDone =>
       /\ \A i \in 1..Len(RawReceived(rPages)) :
            LET e == RawReceived(rPages)[i]
            IN (e \in Range(entries)) <=> e.meta.isLatest
       /\ Len(entries) =
            Len(SelectSeq(RawReceived(rPages), LAMBDA e : e.meta.isLatest))
  /\ \A i \in 1..Len(FileRecords(serversFile)) :
       FileRecords(serversFile)[i].isLatest

\* the registry lists a superseded version of a server next to the latest
\* version of another one: only the second is in the snapshot
C22_Witness ==
  /\ SnapshotWritten
  /\ RawReceived(rPages) = << EntryOld(<< "a", "/", "t" >>), EntryV1(<< "b" >>) >>
  /\ entries = << EntryV1(<< "b" >>) >>
  /\ FileNames(serversFile) = { << "b" >> }

----------------------------------------------------------------------------
(* C23. A page request that the registry answers with a failure status is
   fatal: the fetch hands no entry to the run, also when pages were received
   before, and the run writes neither the snapshot nor the sync state. *)
C23_RegistryFailureIsFatal ==
  RegistryFailed =>
    /\ pc = "failed"
    /\ failedAt = "fetch"
    /\ entries = << >>
    /\ updatedServers = << >>
    /\ serversFile = startFile
    /\ loadSyncState(syncStateFile) = syncState

\* the second page fails after a first page with an entry, over a snapshot
\* and a sync state of an earlier run
C23_Witness ==
  /\ RegistryFailed
  /\ runs = 2
  /\ Len(rPages) = 1
  /\ rAll # << >>
  /\ serversFile # NoFile
  /\ syncStateFile # NoFile
  /\ serversFile = startFile

----------------------------------------------------------------------------
(* computeServerFields on its own: one record is computed, one of its       *)
(* download figures changes (a later enrichment), and it is computed again  *)

\* names without separator, with one and with two separators
FieldNames == { << "b" >>, << "a", "/", "t" >>, << "a", "/", "b", "/", "c" >> }

\* package lists: none, one type, one type twice, two types one of them twice
FieldPackages ==
  { << >>, << NpmPackage >>, << NpmPackage, NpmNoIdPackage >>,
    << PyPiPackage, NpmPackage, PyPiPackage >> }

FieldRemotes == { << >>, << SseRemote >> }

\* the enrichment slots that carry a download figure, and the figure's field
DownloadSlots == << "npm", "pypi", "nuget", "docker", "mcpb" >>

FigureField(slot) ==
  CASE slot = "npm"    -> "monthlyDownloads"
    [] slot = "pypi"   -> "downloads"
    [] slot = "nuget"  -> "totalDownloads"
    [] slot = "docker" -> "pulls"
    [] OTHER           -> "downloadCount"

\* what a source enricher stores in its slot, with figure v
SlotRecord(slot, v) ==
  CASE slot = "npm"    -> [weeklyDownloads |-> 1200, monthlyDownloads |-> v]
    [] slot = "pypi"   -> [downloads |-> v]
    [] slot = "nuget"  -> [totalDownloads |-> v]
    [] slot = "docker" -> [pulls |-> v]
    [] OTHER           -> [downloadCount |-> v]

FirstFigure(slot) ==
  CASE slot = "npm" -> 5000 [] slot = "pypi" -> 300 [] slot = "nuget" -> 40
    [] slot = "docker" -> 9 [] OTHER -> 2

\* the figures a later enrichment can report
FigureValues == { 0, 3, 50 }

\* an enrichment with the slots of S filled in
FieldEnrichment(S) ==
  [k \in S \cup { "lastEnrichedAt" } |->
     IF k = "lastEnrichedAt" THEN toISOString(1) ELSE SlotRecord(k, FirstFigure(k))]

FieldServer(n, pkgs, rems, S) ==
  [convertRegistryEntry(RegistryEntry(n, "first", "1.0.0", << >>, << pkgs >>,
                                      << rems >>, "active", "2025-01-01",
                                      "2025-01-01", TRUE))
     EXCEPT !.enrichment = FieldEnrichment(S)]

FieldServers ==
  { FieldServer(n, pkgs, rems, S) :
      n \in FieldNames, pkgs \in FieldPackages, rems \in FieldRemotes,
      S \in SUBSET Range(DownloadSlots) }

\* server.enrichment[slot] = the slot's record with figure v
WithFigure(server, slot, v) ==
  [server EXCEPT !.enrichment =
     [k \in DOMAIN server.enrichment \cup { slot } |->
        IF k = slot THEN SlotRecord(slot, v) ELSE server.enrichment[k]]]

FieldsInit ==
  /\ kPc = "idle"
  /\ kServer \in { << s >> : s \in FieldServers }
  /\ kResult = << >>
  /\ kPrev = << >>
  /\ now = 0
  /\ serversFile = NoFile
  /\ syncStateFile = NoFile
  /\ runs = 0
  /\ pc = "idle"
  /\ forceFull = FALSE
  /\ existingServers = << >>
  /\ syncState = << >>
  /\ doFullSync = FALSE
  /\ since = << >>
  /\ queriedAt = 0
  /\ entries = << >>
  /\ updatedServers = << >>
  /\ enrichCalled = FALSE
  /\ serversToEnrich = << >>
  /\ queue = << >>
  /\ results = << >>
  /\ startFile = NoFile
  /\ failedAt = ""
  /\ rRequests = << >>
  /\ rPages = << >>
  /\ rAll = << >>
  /\ fPc = "idle"
  /\ fMaxRetries = 0
  /\ fBaseTimeout = 0
  /\ fAttempt = 0
  /\ fTimers = { }
  /\ fRequests = << >>
  /\ fOutcomes = << >>
  /\ fSleeps = << >>
  /\ fLastError = << >>
  /\ fResult = << >>
  /\ fAborted = { }
  /\ fCancels = << >>
  /\ fSibling = "pending"
  /\ cPc = "idle"
  /\ cNow = 0
  /\ cServers = << >>
  /\ cOptions = << >>
  /\ cQueue = << >>
  /\ cResults = << >>
  /\ cTrace = << >>
  /\ cRun = 0
  /\ cFirst = << >>
  /\ sPc = "idle"
  /\ sEnricher = ""
  /\ sServer = << >>
  /\ sRequests = << >>
  /\ sResult = << >>
  /\ pPc = "idle"
  /\ pNow = 0
  /\ pServers = << >>
  /\ pOptions = << >>
  /\ pQueue = << >>
  /\ pFlight = << >>
  /\ pResults = << >>
  /\ pEvents = << >>
  /\ pWake = 0
  /\ pagination = << >>

\* sync.ts:223: the record goes through computeServerFields
FieldsCompute ==
  /\ kPc = "idle"
  /\ kResult' = << computeServerFields(kServer[1]) >>
  /\ kPc' = "computed"
  /\ UNCHANGED << kServer, kPrev >>
  /\ UNCHANGED notFieldVars

\* a later run: one source reports figure v for the record, the other slots stay
\* as they are, and the record goes through computeServerFields again
FieldsChange ==
  /\ kPc = "computed"
  /\ \E slot \in Range(DownloadSlots), v \in FigureValues :
       LET given == WithFigure(kResult[1], slot, v)
       IN /\ kServer' = << given >>
          /\ kResult' = << computeServerFields(given) >>
          /\ kPrev' = << [server |-> kServer[1], result |-> kResult[1],
                          slot |-> slot] >>
  /\ kPc' = "changed"
  /\ UNCHANGED notFieldVars

FieldsNext == FieldsCompute \/ FieldsChange

SpecFields == FieldsInit /\ [][FieldsNext]_vars

----------------------------------------------------------------------------
(* Vocabulary of the derived-field properties *)

\* the registry types of the record's packages
TypesOf(server) ==
  { server.packages[i].registryType : i \in 1..Len(server.packages) }

\* the download figure source `slot` reports in enrichment e, 0 when absent
SourceFigure(e, slot) ==
  IF slot \in DOMAIN e THEN e[slot][FigureField(slot)] ELSE 0

RECURSIVE SumFigures(_, _)
SumFigures(e, slots) ==
  IF slots = << >> THEN 0
  ELSE SourceFigure(e, Head(slots)) + SumFigures(e, Tail(slots))

\* position of the first "/" of a name, 0 when there is none
FirstSlash(n) ==
  IF \A i \in 1..Len(n) : n[i] # "/" THEN 0
  ELSE CHOOSE i \in 1..Len(n) : n[i] = "/" /\ \A j \in 1..(i - 1) : n[j] # "/"

SlashCount(n) == Cardinality({ i \in 1..Len(n) : n[i] = "/" })

----------------------------------------------------------------------------
\* C24: after computeServerFields, _computed.packageTypes holds every registry
\* type of the record's packages exactly once and no other type, and
\* _computed.hasRemote is true exactly when the record has a remote.
C24_PackageTypesAndHasRemote ==
  kPc # "idle" =>
    LET c == kResult[1].computed
    IN /\ Range(c.packageTypes) = TypesOf(kServer[1])
       /\ \A i, j \in 1..Len(c.packageTypes) :
            c.packageTypes[i] = c.packageTypes[j] => i = j
       /\ c.hasRemote <=> Len(kServer[1].remotes) > 0

\* a record with a registry type that occurs twice, a second type, and a remote
C24_Witness ==
  /\ kPc = "computed"
  /\ Len(kServer[1].packages) = 3
  /\ Len(kResult[1].computed.packageTypes) = 2
  /\ kResult[1].computed.hasRemote

\* C25: _computed.totalDownloads is the sum of the download figures of the
\* sources present, an absent source counting as zero; when one source's figure
\* changes by d and the others stay, totalDownloads changes by exactly d.
C25_TotalDownloadsIsSum ==
  /\ kPc # "idle" =>
       kResult[1].computed.totalDownloads
         = SumFigures(kServer[1].enrichment, DownloadSlots)
  /\ kPc = "changed" =>
       LET slot == kPrev[1].slot
           d == SourceFigure(kServer[1].enrichment, slot)
                  - SourceFigure(kPrev[1].server.enrichment, slot)
       IN kResult[1].computed.totalDownloads
            = kPrev[1].result.computed.totalDownloads + d

\* the container pulls of a record with npm downloads and no PyPI data went
\* from 9 to 50
C25_Witness ==
  /\ kPc = "changed"
  /\ kPrev[1].slot = "docker"
  /\ "npm" \in DOMAIN kServer[1].enrichment
  /\ "pypi" \notin DOMAIN kServer[1].enrichment
  /\ SourceFigure(kPrev[1].server.enrichment, "docker") = 9
  /\ SourceFigure(kServer[1].enrichment, "docker") = 50
  /\ kResult[1].computed.totalDownloads
       = kPrev[1].result.computed.totalDownloads + 41

\* C26: for a name with a "/", organization is the part before the first "/"
\* and serverName the whole remainder, so that organization, "/" and
\* serverName give the name back; for a name without "/", organization is
\* empty and serverName is the name.
C26_SplitOnFirstSeparator ==
  kPc # "idle" =>
    LET n == kServer[1].name
        c == kResult[1].computed
    IN IF FirstSlash(n) = 0
       THEN c.organization = << >> /\ c.serverName = n
       ELSE /\ c.organization = SubSeq(n, 1, FirstSlash(n) - 1)
            /\ c.serverName = SubSeq(n, FirstSlash(n) + 1, Len(n))
            /\ c.organization \o << "/" >> \o c.serverName = n

\* what does hold: the split is as stated for names with at most one "/"
C26_SplitOfSimpleNames ==
  (kPc # "idle" /\ SlashCount(kServer[1].name) <= 1) =>
    LET n == kServer[1].name
        c == kResult[1].computed
    IN IF FirstSlash(n) = 0
       THEN c.organization = << >> /\ c.serverName = n
       ELSE c.organization \o << "/" >> \o c.serverName = n

\* a name with two separators: the part after the second one is dropped
C26_RemainderDropped ==
  /\ kPc = "computed"
  /\ kServer[1].name = << "a", "/", "b", "/", "c" >>
  /\ kResult[1].computed.organization = << "a" >>
  /\ kResult[1].computed.serverName = << "b" >>

----------------------------------------------------------------------------
\* C29: every record enrichServer does not skip as fresh is returned with a
\* non-empty lastEnrichedAt that was set in this call, also when every source
\* enricher returned null or threw.
C29_StampIsUnconditional ==
  \A k \in 1..Len(cTrace) :
    LET e == cTrace[k]
    IN ~Skips(e.input, MergedOptions(cOptions), e.at) =>
         /\ StampOf(e.output) # << >>
         /\ StampOf(e.output) = toISOString(e.at)

\* a record stamped a day ago is enriched again, no source has data for it and
\* one of them throws: it comes back with the stamp of this call
C29_Witness ==
  \E k \in 1..Len(cTrace) :
    LET e == cTrace[k]
    IN /\ e.input = CoordStamped
       /\ e.at >= SYNC_MAX_AGE
       /\ e.called = Enrichers
       /\ \A i \in 1..Len(e.outcomes) : e.outcomes[i].kind # "data"
       /\ \E i \in 1..Len(e.outcomes) : e.outcomes[i].kind = "throw"
       /\ StampOf(e.input) = toISOString(0)
       /\ StampOf(e.output) = toISOString(e.at)

----------------------------------------------------------------------------
(* enrichServers and enrichServer one await at a time: every call of a      *)
(* source enricher and every sleep has a begin and an end on the clock      *)

\* how long a source takes to answer a request
NET_FAST_MS == 10
NET_SLOW_MS == 700
NetDurations == { NET_FAST_MS, NET_SLOW_MS }

\* a record no enricher finds an identifier on
PipeBare ==
  convertRegistryEntry(RegistryEntry(<< "b", "/", "c" >>, "bare", "1.0.0", << >>,
                                     << >>, << >>, "active", "2025-01-01",
                                     "2025-01-01", TRUE))

PipeRecords == << CoordTwoSources, CoordStamped, PipeBare >>

\* the servers arguments tried
PipeInputs ==
  { SubSeq(PipeRecords, 1, k) : k \in 1..Len(PipeRecords) }
    \cup { << PipeBare, CoordStamped, CoordTwoSources >> }

\* the options arguments tried
PipeOptionsPool ==
  { << >>, SyncEnrichOptions(TRUE), SyncEnrichOptions(FALSE),
    [concurrency |-> 1], [delayMs |-> 0], [concurrency |-> 0, delayMs |-> 0] }

\* line 86: await sleep(opts.delayMs), whatever the call of the enricher gave
AfterCallMs_OnlyAfterData(opts, outcome) ==
  IF outcome.kind = "data" THEN opts.delayMs ELSE 0

AfterCallMs(opts, outcome) == opts.delayMs

\* line 122: await sleep(opts.delayMs * 2)
BetweenBatchesMs(opts) == opts.delayMs * 2

\* what a call of the enricher can end with, and after how long: an enricher
\* that finds no identifier returns null without a request
CallChoices(name, server) ==
  IF FindIdentifier(name, server) = << >>
  THEN { [outcome |-> NullOutcome, ms |-> 0] }
  ELSE { [outcome |-> o, ms |-> d] :
           o \in EnricherOutcomes(name, server), d \in NetDurations }

RECURSIVE FirstChoices(_)
FirstChoices(batch) ==
  IF batch = << >> THEN { << >> }
  ELSE { << c >> \o r : c \in CallChoices(Enrichers[1], Head(batch)),
                         r \in FirstChoices(Tail(batch)) }

\* line 77: fn(server) of enricher k is called at time t
StartCall(item, k, t, c) ==
  [item EXCEPT !.phase = "calling", !.idx = k, !.outcome = c.outcome,
               !.due = t + c.ms,
               !.log = Append(item.log,
                   [enricher |-> Enrichers[k], start |-> t, ended |-> << >>,
                    kind |-> "", resumed |-> << >>])]

\* lines 49-77: enrichServer(server, opts) up to its first await
StartEnrich(server, opts, t, c, b) ==
  IF opts.skipIfFresh /\ isEnrichmentFresh(server, opts.maxAge, t)
  THEN [batch |-> b, server |-> server, phase |-> "done", idx |-> 0,
        enrichment |-> server.enrichment, outcome |-> NullOutcome, due |-> t,
        began |-> t, finished |-> t, log |-> << >>, result |-> << server >>,
        skipped |-> TRUE]
  ELSE StartCall(
        [batch |-> b, server |-> server, phase |-> "calling", idx |-> 0,
         enrichment |-> ObjectAssign(server.enrichment,
                                     [lastEnrichedAt |-> toISOString(t)]),
         outcome |-> NullOutcome, due |-> t, began |-> t, finished |-> t,
         log |-> << >>, result |-> << >>, skipped |-> FALSE], 1, t, c)

\* the enrichServer calls that wait for a request or for a timer
Pending == { i \in 1..Len(pFlight) : pFlight[i].phase \in { "calling", "sleeping" } }

\* the event loop runs what is due first
CanFire(i) ==
  /\ i \in Pending
  /\ \A j \in Pending : pFlight[i].due <= pFlight[j].due

BatchNumber == IF pEvents = << >> THEN 1 ELSE pEvents[Len(pEvents)].batch + 1

PipeInit ==
  /\ pPc = "idle"
  /\ pNow \in CoordStarts
  /\ pServers \in PipeInputs
  /\ pOptions \in PipeOptionsPool
  /\ pQueue = << >>
  /\ pFlight = << >>
  /\ pResults = << >>
  /\ pEvents = << >>
  /\ pWake = 0
  /\ pagination = << >>
  /\ now = 0
  /\ serversFile = NoFile
  /\ syncStateFile = NoFile
  /\ runs = 0
  /\ pc = "idle"
  /\ forceFull = FALSE
  /\ existingServers = << >>
  /\ syncState = << >>
  /\ doFullSync = FALSE
  /\ since = << >>
  /\ queriedAt = 0
  /\ entries = << >>
  /\ updatedServers = << >>
  /\ enrichCalled = FALSE
  /\ serversToEnrich = << >>
  /\ queue = << >>
  /\ results = << >>
  /\ startFile = NoFile
  /\ failedAt = ""
  /\ rRequests = << >>
  /\ rPages = << >>
  /\ rAll = << >>
  /\ fPc = "idle"
  /\ fMaxRetries = 0
  /\ fBaseTimeout = 0
  /\ fAttempt = 0
  /\ fTimers = { }
  /\ fRequests = << >>
  /\ fOutcomes = << >>
  /\ fSleeps = << >>
  /\ fLastError = << >>
  /\ fResult = << >>
  /\ fAborted = { }
  /\ fCancels = << >>
  /\ fSibling = "pending"
  /\ cPc = "idle"
  /\ cNow = 0
  /\ cServers = << >>
  /\ cOptions = << >>
  /\ cQueue = << >>
  /\ cResults = << >>
  /\ cTrace = << >>
  /\ cRun = 0
  /\ cFirst = << >>
  /\ sPc = "idle"
  /\ sEnricher = ""
  /\ sServer = << >>
  /\ sRequests = << >>
  /\ sResult = << >>
  /\ kPc = "idle"
  /\ kServer = << >>
  /\ kResult = << >>
  /\ kPrev = << >>

\* lines 98-110: enrichServers(pServers, pOptions) is called
PipeCall ==
  /\ pPc = "idle"
  /\ pQueue' = pServers
  /\ pResults' = << >>
  /\ pPc' = "loop"
  /\ UNCHANGED << pNow, pServers, pOptions, pFlight, pEvents, pWake >>
  /\ UNCHANGED notPipeVars

\* lines 113-117: the batch is spliced off the queue and enrichServer is
\* called for each of its records, each running up to its first await
PipeBatchStart ==
  /\ pPc = "loop"
  /\ pQueue # << >>
  /\ LET opts == MergedOptions(pOptions)
         cut == SpliceBatch(pQueue, opts.concurrency)
     IN /\ \E cs \in FirstChoices(cut.batch) :
             pFlight' = [i \in 1..Len(cut.batch) |->
                           StartEnrich(cut.batch[i], opts, pNow, cs[i], BatchNumber)]
        /\ pQueue' = cut.rest
  /\ pPc' = "batch"
  /\ UNCHANGED << pNow, pServers, pOptions, pResults, pEvents, pWake >>
  /\ UNCHANGED notPipeVars

\* lines 76-86: the call of an enricher ends (it returns or throws), the result
\* is assigned, and the sleep after the enricher begins
PipeCallEnds ==
  /\ pPc = "batch"
  /\ \E i \in 1..Len(pFlight) :
       /\ CanFire(i)
       /\ pFlight[i].phase = "calling"
       /\ LET item == pFlight[i]
              t == item.due
              opts == MergedOptions(pOptions)
              n == Len(item.log)
          IN /\ pNow' = t
             /\ pFlight' = [pFlight EXCEPT ![i] =
                  [item EXCEPT
                     !.phase = "sleeping",
                     !.enrichment = IF item.outcome.kind = "data"
                                    THEN ObjectAssign(item.enrichment, item.outcome.value)
                                    ELSE item.enrichment,
                     !.due = t + AfterCallMs(opts, item.outcome),
                     !.log = [item.log EXCEPT ![n].ended = << t >>,
                                              ![n].kind = item.outcome.kind]]]
  /\ UNCHANGED << pPc, pServers, pOptions, pQueue, pResults, pEvents, pWake >>
  /\ UNCHANGED notPipeVars

\* lines 75-77, 89-92: the sleep after an enricher is over: the next enricher
\* is called, or after the last one enrichServer returns
PipeSleepOver ==
  /\ pPc = "batch"
  /\ \E i \in 1..Len(pFlight) :
       /\ CanFire(i)
       /\ pFlight[i].phase = "sleeping"
       /\ LET item == pFlight[i]
              t == item.due
              n == Len(item.log)
              woken == [item EXCEPT !.log = [item.log EXCEPT ![n].resumed = << t >>]]
          IN /\ pNow' = t
             /\ IF item.idx < Len(Enrichers)
                THEN \E c \in CallChoices(Enrichers[item.idx + 1], item.server) :
                       pFlight' = [pFlight EXCEPT ![i] =
                                     StartCall(woken, item.idx + 1, t, c)]
                ELSE pFlight' = [pFlight EXCEPT ![i] =
                       [woken EXCEPT
                          !.phase = "done", !.finished = t,
                          !.result = << [item.server EXCEPT
                                           !.enrichment = item.enrichment] >>]]
  /\ UNCHANGED << pPc, pServers, pOptions, pQueue, pResults, pEvents, pWake >>
  /\ UNCHANGED notPipeVars

\* lines 116-124: Promise.all resolves when every enrichServer of the batch has
\* returned; the results are pushed and, if records are left, the sleep
\* between two batches begins
PipeBatchEnd ==
  /\ pPc = "batch"
  /\ Pending = { }
  /\ pResults' = pResults \o [i \in 1..Len(pFlight) |-> pFlight[i].result[1]]
  /\ pEvents' = pEvents \o pFlight
  /\ pFlight' = << >>
  /\ IF pQueue # << >>
     THEN /\ pPc' = "pause"
          /\ pWake' = pNow + BetweenBatchesMs(MergedOptions(pOptions))
     ELSE /\ pPc' = "loop"
          /\ pWake' = pWake
  /\ UNCHANGED << pNow, pServers, pOptions, pQueue >>
  /\ UNCHANGED notPipeVars

\* line 122: the sleep between two batches is over
PipePauseOver ==
  /\ pPc = "pause"
  /\ pNow' = pWake
  /\ pPc' = "loop"
  /\ UNCHANGED << pServers, pOptions, pQueue, pFlight, pResults, pEvents, pWake >>
  /\ UNCHANGED notPipeVars

\* lines 113, 136-138: the queue is empty, enrichServers returns results
PipeReturn ==
  /\ pPc = "loop"
  /\ pQueue = << >>
  /\ pPc' = "returned"
  /\ UNCHANGED << pNow, pServers, pOptions, pQueue, pFlight, pResults, pEvents, pWake >>
  /\ UNCHANGED notPipeVars

PipeNext ==
  \/ PipeCall
  \/ PipeBatchStart
  \/ PipeCallEnds
  \/ PipeSleepOver
  \/ PipeBatchEnd
  \/ PipePauseOver
  \/ PipeReturn

SpecPipe == PipeInit /\ [][PipeNext]_vars

----------------------------------------------------------------------------
(* Vocabulary of the pipeline properties *)

\* every enrichServer call made so far, in the order the records were taken
AllCalls == pEvents \o pFlight

\* the calls that ran the enrichers, and those of them that have returned
Enriched(item) == ~item.skipped
Returned(item) == item.phase = "done"

\* the calls of source enrichers of one enrichServer call that have not ended
OpenCalls(item) == { j \in 1..Len(item.log) : item.log[j].ended = << >> }

----------------------------------------------------------------------------
\* C27: for a record that is enriched the source enrichers are called in the
\* declared order, at most one call of a source enricher of the record is in
\* flight at any time, and delayMs passes after each call, whether it returned
\* data, returned null or threw, before the next call or the return.
C27_SequentialWithDelay ==
  \A k \in 1..Len(AllCalls) :
    LET item == AllCalls[k]
        log == item.log
        delayMs == MergedOptions(pOptions).delayMs
    IN Enriched(item) =>
         /\ Len(log) <= Len(Enrichers)
         /\ \A j \in 1..Len(log) : log[j].enricher = Enrichers[j]
         /\ Cardinality(OpenCalls(item)) <= 1
         /\ OpenCalls(item) \subseteq { Len(log) }
         /\ \A j \in 1..Len(log) :
              /\ log[j].ended # << >> => log[j].ended[1] >= log[j].start
              /\ log[j].resumed # << >> =>
                    /\ log[j].ended # << >>
                    /\ log[j].resumed[1] >= log[j].ended[1] + delayMs
         /\ \A j \in 1..(Len(log) - 1) :
              /\ log[j].resumed # << >>
              /\ log[j + 1].start >= log[j].resumed[1]
         /\ Returned(item) =>
              /\ Len(log) = Len(Enrichers)
              /\ log[Len(log)].resumed # << >>
              /\ item.finished >= log[Len(log)].resumed[1]

\* a record whose GitHub call threw, whose npm call returned data and whose
\* other calls returned null has gone through the six enrichers with a delay
\* of 200 ms, while another record of the batch was in flight
C27_Witness ==
  /\ MergedOptions(pOptions).delayMs = SYNC_DELAY_MS
  /\ Len(pFlight) = 2
  /\ pFlight[1].server = CoordTwoSources
  /\ pFlight[1].phase = "done"
  /\ pFlight[1].log[1].kind = "throw"
  /\ pFlight[1].log[2].kind = "data"
  /\ pFlight[1].log[3].kind = "null"
  /\ pFlight[1].log[2].start = pFlight[1].log[1].ended[1] + SYNC_DELAY_MS
  /\ pFlight[1].finished = pFlight[1].log[6].ended[1] + SYNC_DELAY_MS
  /\ Enriched(pFlight[2])

----------------------------------------------------------------------------
\* C28: the records are processed in consecutive batches of at most
\* `concurrency` records in submission order; at every moment at most
\* `concurrency` enrichment pipelines are in flight; no record of batch k+1
\* starts before every record of batch k has finished and 2*delayMs has passed.
C28_BoundedFanOut ==
  LET opts == MergedOptions(pOptions)
  IN pPc # "idle" =>
       /\ Len(pFlight) <= opts.concurrency
       /\ Cardinality(Pending) <= opts.concurrency
       /\ [k \in 1..Len(AllCalls) |-> AllCalls[k].server] \o pQueue = pServers
       /\ \A k \in 1..Len(AllCalls) :
            AllCalls[k].batch = ((k - 1) \div opts.concurrency) + 1
       /\ \A a, b \in 1..Len(AllCalls) :
            AllCalls[b].batch = AllCalls[a].batch + 1 =>
              /\ Returned(AllCalls[a])
              /\ AllCalls[b].began
                   >= AllCalls[a].finished + 2 * opts.delayMs

\* three records with concurrency 2: the second record of the first batch
\* finished before the first one, and the third record started 400 ms after
\* the first one had finished
C28_Witness ==
  /\ MergedOptions(pOptions).concurrency = 2
  /\ MergedOptions(pOptions).delayMs = SYNC_DELAY_MS
  /\ Len(pEvents) = 2
  /\ Len(pFlight) = 1
  /\ Enriched(pEvents[1]) /\ Enriched(pEvents[2]) /\ Enriched(pFlight[1])
  /\ pEvents[2].finished < pEvents[1].finished
  /\ pFlight[1].batch = 2
  /\ pFlight[1].began = pEvents[1].finished + 2 * SYNC_DELAY_MS

----------------------------------------------------------------------------
\* C30: the lastEnrichedAt of a record that is enriched is not earlier than
\* the time the last call of a source enricher of the record ended.
C30_StampTakenAtCompletion ==
  \A k \in 1..Len(AllCalls) :
    LET item == AllCalls[k]
    IN (Enriched(item) /\ Returned(item)) =>
         getTime(StampOf(item.result[1])) >= item.log[Len(item.log)].ended[1]

\* what does hold: the stamp is the time enrichServer was called, which is not
\* later than the start of the first call of a source enricher
C30_StampTakenBeforeFirstCall ==
  \A k \in 1..Len(AllCalls) :
    LET item == AllCalls[k]
    IN (Enriched(item) /\ Returned(item)) =>
         /\ StampOf(item.result[1]) = toISOString(item.began)
         /\ item.began <= item.log[1].start

\* a record is returned with a stamp older than the end of its last source call
C30_StampPrecedesLastCall ==
  \E k \in 1..Len(AllCalls) :
    LET item == AllCalls[k]
    IN /\ Enriched(item) /\ Returned(item)
       /\ getTime(StampOf(item.result[1])) + 5 * MergedOptions(pOptions).delayMs
            <= item.log[Len(item.log)].ended[1]
       /\ MergedOptions(pOptions).delayMs > 0

----------------------------------------------------------------------------
\* C31: when a record is enriched again, a source that returns data overwrites
\* its own slot only, a source that returns null or throws leaves the slot
\* stored for it as it was, and no slot the record had is removed.
C31_SlotsAreAdditive ==
  \A k \in 1..Len(cTrace) :
    LET e == cTrace[k]
        before == e.input.enrichment
        after == e.output.enrichment
    IN e.called = Enrichers =>
         /\ DOMAIN before \subseteq DOMAIN after
         /\ \A i \in 1..Len(Enrichers) :
              LET slot == SlotOf(Enrichers[i])
              IN IF e.outcomes[i].kind = "data"
                 THEN /\ DOMAIN e.outcomes[i].value = { slot }
                      /\ slot \in DOMAIN after
                      /\ after[slot] = e.outcomes[i].value[slot]
                 ELSE /\ slot \in DOMAIN after <=> slot \in DOMAIN before
                      /\ slot \in DOMAIN before => after[slot] = before[slot]

\* in the second run the GitHub enricher throws and the npm enricher returns
\* null for a record that got both slots in the first run: it keeps both; and
\* a record with an npm slot from before gets new npm data
C31_Witness ==
  /\ \E k \in 1..Len(cTrace) :
       LET e == cTrace[k]
       IN /\ e.run = 2
          /\ e.called = Enrichers
          /\ { "github", "npm" } \subseteq DOMAIN e.input.enrichment
          /\ e.outcomes[1].kind = "throw"
          /\ e.outcomes[2].kind = "null"
          /\ e.output.enrichment.github = e.input.enrichment.github
          /\ e.output.enrichment.npm = e.input.enrichment.npm
  /\ \E k \in 1..Len(cTrace) :
       LET e == cTrace[k]
       IN /\ e.input = CoordStamped
          /\ e.outcomes[2].kind = "data"
          /\ e.output.enrichment.npm # e.input.enrichment.npm

----------------------------------------------------------------------------
\* C32: in an incremental run a record of the prior snapshot whose name is not
\* among the fetched entries is written to the new snapshot with the registry
\* fields and the enrichment it had, and is not handed to the enrichers.
C32_UntouchedRecordsKept ==
  (SnapshotWritten /\ ~doFullSync) =>
    \A n \in MapNames(existingServers) \ EntryNames(entries) :
      /\ n \in FileNames(serversFile)
      /\ \A f \in RegistryFields :
           FileRecord(serversFile, n)[f] = MapGet(existingServers, n)[f]
      /\ FileRecord(serversFile, n).enrichment = MapGet(existingServers, n).enrichment
      /\ \A i \in 1..Len(serversToEnrich) : serversToEnrich[i].name # n

\* an incremental run more than a day after the first one fetched an entry for
\* one of the two records of the prior snapshot and enriched it; the other
\* record is in the new snapshot as it was
C32_Witness ==
  /\ pc = "done"
  /\ ~doFullSync
  /\ Len(existingServers) = 2
  /\ EntryNames(entries) = { << "b" >> }
  /\ Len(serversToEnrich) = 1
  /\ FileNames(serversFile) = { << "a", "/", "t" >>, << "b" >> }
  /\ FileRecord(serversFile, << "a", "/", "t" >>).enrichment
       = MapGet(existingServers, << "a", "/", "t" >>).enrichment
  /\ FileRecord(serversFile, << "b" >>).enrichment
       # MapGet(existingServers, << "b" >>).enrichment

----------------------------------------------------------------------------
\* C33: for every record and every outcome of the source enrichers, the record
\* enrichServer returns has the registry fields (and the derived fields) of its
\* argument, and the argument and its enrichment are after the call what they
\* were before it.
C33_OnlyEnrichmentChanges ==
  \A k \in 1..Len(cTrace) :
    LET e == cTrace[k]
    IN /\ \A f \in RegistryFields : e.output[f] = e.input[f]
       /\ e.output.computed = e.input.computed
       /\ DOMAIN e.output = DOMAIN e.input
       /\ e.inputAfter = e.input

\* a record came back with another enrichment: data of one source, while
\* another source threw
C33_Witness ==
  \E k \in 1..Len(cTrace) :
    LET e == cTrace[k]
    IN /\ e.input = CoordTwoSources
       /\ e.outcomes[1].kind = "throw"
       /\ e.outcomes[2].kind = "data"
       /\ e.output.enrichment # e.input.enrichment
       /\ e.output.name = << "c" >>
       /\ e.inputAfter = CoordTwoSources

----------------------------------------------------------------------------
\* C34: in every snapshot a run has written, the _computed of each record is
\* computeServerFields of the record's own fields, also for the records the
\* run neither fetched nor enriched; applying computeServerFields once more
\* gives the same record, and it leaves every field but _computed as it is.
C34_DerivedFieldsRecomputed ==
  SnapshotWritten =>
    \A i \in 1..Len(FileRecords(serversFile)) :
      LET rec == FileRecords(serversFile)[i]
          once == computeServerFields(rec)
      IN /\ rec.computed = once.computed
         /\ computeServerFields(once) = once
         /\ \A f \in DOMAIN rec \ { "computed" } : once[f] = rec[f]
         /\ Range(rec.computed.packageTypes) = TypesOf(rec)
         /\ rec.computed.hasRemote <=> Len(rec.remotes) > 0
         /\ rec.computed.totalDownloads = SumFigures(rec.enrichment, DownloadSlots)

\* an incremental run wrote a snapshot with a record it neither fetched nor
\* enriched and a record with downloads, each with its derived fields
C34_Witness ==
  /\ SnapshotWritten
  /\ ~doFullSync
  /\ \E i \in 1..Len(FileRecords(serversFile)) :
       LET rec == FileRecords(serversFile)[i]
       IN /\ rec.name \notin EntryNames(entries)
          /\ rec.computed.organization = << "a" >>
          /\ rec.computed.serverName = << "t" >>
          /\ rec.computed.packageTypes # << >>
  /\ \E i \in 1..Len(FileRecords(serversFile)) :
       /\ FileRecords(serversFile)[i].name \in EntryNames(entries)
       /\ FileRecords(serversFile)[i].computed.totalDownloads > 0

----------------------------------------------------------------------------
\* C35: each attempt of fetchWithRetry has its own abort controller and timer,
\* and the timer is cleared when the attempt ends, so the timer of an attempt
\* cancels the request of that attempt only: never a later attempt of the
\* call, never the fetch of another call that runs meanwhile.
C35_CancellationIsLocal ==
  /\ \A i \in 1..Len(fCancels) : fCancels[i].hit = fCancels[i].timer
  /\ fSibling # "aborted"
  /\ fTimers \subseteq (IF fPc = "awaiting" THEN { fAttempt } ELSE { })
  /\ \A j \in 1..Len(fOutcomes) :
       fOutcomes[j] = AbortError =>
         \E i \in 1..Len(fCancels) : fCancels[i] = [timer |-> j, hit |-> j]
  /\ \A j, k \in 1..Len(fRequests) : j # k => SignalOf(j) # SignalOf(k)

\* the first attempt timed out while the fetch of another call was pending;
\* the second attempt was answered, and the other fetch too
C35_Witness ==
  /\ fPc = "returned"
  /\ Len(fOutcomes) = 2
  /\ fOutcomes[1] = AbortError
  /\ fCancels = << [timer |-> 1, hit |-> 1] >>
  /\ fTimers = { }
  /\ fSibling = "done"

----------------------------------------------------------------------------
(* Vocabulary of the lower bound of the next incremental run *)

\* the lastSyncAt a run that ended well has persisted: the updated_since of
\* the next incremental run (sync.ts 167-170)
PersistedLastSyncAt == getTime(loadSyncState(syncStateFile)[1].lastSyncAt)

\* C36: the lastSyncAt a successful run persists, which the next incremental
\* run passes to the registry as lower bound, is not later than the moment the
\* run queried the registry, so that an entry updated after the run's fetch
\* (during its enrichment phase, say) is returned to the next run.
C36_LowerBoundNotAfterQuery ==
  pc = "done" => PersistedLastSyncAt <= queriedAt

\* what does hold: the persisted lastSyncAt is the clock at the end of the run
\* (sync.ts 230), later than the query of the last page
C36_LowerBoundIsEndOfRun ==
  pc = "done" => (PersistedLastSyncAt = now /\ PersistedLastSyncAt > queriedAt)

\* a run fetched an entry, enriched it for six delays and persisted a
\* lastSyncAt later than its query by more than that: an update the registry
\* gets in between is below the lower bound of the next incremental run
C36_WindowOfMissedUpdates ==
  /\ pc = "done"
  /\ Len(results) > 0
  /\ PersistedLastSyncAt >= queriedAt + Len(Enrichers) * SYNC_DELAY_MS

----------------------------------------------------------------------------
(* Termination of enrichServers: every await of the function is resumed     *)
(* (each source call returns or throws, each timer fires)                   *)

SpecPipeLive == SpecPipe /\ WF_vars(PipeNext)

\* C37: for every input list and every concurrency given as an option, 0
\* included, the batch loop ends, and the result holds one record per input
\* record, in input order and with the same names.
C37_TerminatesAndIsComplete ==
  <>(/\ pPc = "returned"
     /\ Len(pResults) = Len(pServers)
     /\ \A i \in 1..Len(pServers) : pResults[i].name = pServers[i].name)

\* what does hold: with a concurrency of at least 1 the loop ends with one
\* record per input record, in input order
C37_TerminatesWithPositiveConcurrency ==
  (MergedOptions(pOptions).concurrency >= 1) =>
    <>(/\ pPc = "returned"
       /\ Len(pResults) = Len(pServers)
       /\ \A i \in 1..Len(pServers) : pResults[i].name = pServers[i].name)

\* with concurrency 0 a batch without records has been run and the queue is
\* as long as it was
C37_EmptyBatchLeavesQueue ==
  /\ MergedOptions(pOptions).concurrency = 0
  /\ pPc = "loop"
  /\ pWake = pNow /\ pEvents = << >> /\ pResults = << >>
  /\ pQueue = pServers
  /\ pServers # << >>

----------------------------------------------------------------------------
(* fetchAllServers on its own, against a registry that hands out whatever   *)
(* cursor it likes: none, an empty one, a new one, the same one again       *)

\* pages the registry is let to serve before the model stops looking
MaxRegistryPages == 3

RegistryCursors == { << >>, << "" >>, << CursorOf(1) >>, << CursorOf(2) >> }

RegistryInit ==
  /\ now = 0
  /\ serversFile = NoFile
  /\ syncStateFile = NoFile
  /\ runs = 0
  /\ pc = "idle"
  /\ forceFull = FALSE
  /\ existingServers = << >>
  /\ syncState = << >>
  /\ doFullSync = FALSE
  /\ since \in { << >>, << toISOString(5) >> }
  /\ queriedAt = 0
  /\ entries = << >>
  /\ updatedServers = << >>
  /\ enrichCalled = FALSE
  /\ serversToEnrich = << >>
  /\ queue = << >>
  /\ results = << >>
  /\ startFile = NoFile
  /\ failedAt = ""
  /\ rRequests = << >>
  /\ rPages = << >>
  /\ rAll = << >>
  /\ fPc = "idle"
  /\ fMaxRetries = 0
  /\ fBaseTimeout = 0
  /\ fAttempt = 0
  /\ fTimers = { }
  /\ fRequests = << >>
  /\ fOutcomes = << >>
  /\ fSleeps = << >>
  /\ fLastError = << >>
  /\ fResult = << >>
  /\ fAborted = { }
  /\ fCancels = << >>
  /\ fSibling = "pending"
  /\ cPc = "idle"
  /\ cNow = 0
  /\ cServers = << >>
  /\ cOptions = << >>
  /\ cQueue = << >>
  /\ cResults = << >>
  /\ cTrace = << >>
  /\ cRun = 0
  /\ cFirst = << >>
  /\ sPc = "idle"
  /\ sEnricher = ""
  /\ sServer = << >>
  /\ sRequests = << >>
  /\ sResult = << >>
  /\ kPc = "idle"
  /\ kServer = << >>
  /\ kResult = << >>
  /\ kPrev = << >>
  /\ pPc = "idle"
  /\ pNow = 0
  /\ pServers = << >>
  /\ pOptions = << >>
  /\ pQueue = << >>
  /\ pFlight = << >>
  /\ pResults = << >>
  /\ pEvents = << >>
  /\ pWake = 0
  /\ pagination = << >>

\* registry.ts 449-463: fetchAllServers({ updatedSince }) is called and
\* requests its first page, without cursor
RegistryCall ==
  /\ pc = "idle"
  /\ pc' = "fetch"
  /\ rRequests' = << PageRequest(<< >>, since) >>
  /\ rPages' = << >>
  /\ rAll' = << >>
  /\ UNCHANGED << now, serversFile, syncStateFile, runs, forceFull, existingServers,
                  syncState, doFullSync, since, queriedAt, entries, updatedServers,
                  enrichCalled, serversToEnrich, queue, results, startFile, failedAt >>
  /\ UNCHANGED notSyncVars

\* registry.ts 458-483: a page arrives; its latest entries are pushed, and
\* either the loop sleeps and requests the next page or the function returns
RegistryAnswers ==
  /\ pc = "fetch"
  /\ Len(rPages) < MaxRegistryPages
  /\ \E servers \in SeqsUpTo(RawPool, 1), cursor \in RegistryCursors :
       LET response == RegistryResponse(servers, cursor)
       IN /\ rPages' = Append(rPages, response)
          /\ rAll' = rAll \o LatestServers(response)
          /\ IF Truthy(response.nextCursor)
             THEN /\ now' = now + REGISTRY_PAGE_DELAY_MS
                  /\ rRequests' = Append(rRequests,
                        PageRequest(response.nextCursor, rRequests[1].updatedSince))
                  /\ pc' = "fetch"
                  /\ entries' = entries
             ELSE /\ now' = now
                  /\ rRequests' = rRequests
                  /\ pc' = "done"
                  /\ entries' = rAll'
  /\ UNCHANGED << serversFile, syncStateFile, runs, forceFull, existingServers,
                  syncState, doFullSync, since, queriedAt, updatedServers,
                  enrichCalled, serversToEnrich, queue, results, startFile, failedAt >>
  /\ UNCHANGED notSyncVars

\* registry.ts 432-436: a response that is not ok throws
RegistryThrows ==
  /\ pc = "fetch"
  /\ Len(rPages) < MaxRegistryPages
  /\ pc' = "failed"
  /\ failedAt' = "fetch"
  /\ UNCHANGED << now, serversFile, syncStateFile, runs, forceFull, existingServers,
                  syncState, doFullSync, since, queriedAt, entries, updatedServers,
                  enrichCalled, serversToEnrich, queue, results, startFile,
                  rRequests, rPages, rAll >>
  /\ UNCHANGED notSyncVars

RegistryNext ==
  \/ RegistryCall
  \/ RegistryAnswers
  \/ RegistryThrows

SpecRegistry == RegistryInit /\ [][RegistryNext]_vars

----------------------------------------------------------------------------
\* C38: fetchAllServers returns exactly when a page arrives without next
\* cursor, an empty-string cursor counting as none; as long as the pages carry
\* a non-empty cursor, the same one again included, the loop has requested
\* one more page, however many pages it has got.
C38_EndsOnlyWithoutCursor ==
  /\ pc = "done" =>
       /\ rPages # << >>
       /\ ~Truthy(rPages[Len(rPages)].nextCursor)
       /\ \A k \in 1..(Len(rPages) - 1) : Truthy(rPages[k].nextCursor)
       /\ Len(rRequests) = Len(rPages)
       /\ entries = Concat([k \in 1..Len(rPages) |-> LatestServers(rPages[k])])
  /\ pc = "fetch" =>
       /\ \A k \in 1..Len(rPages) : Truthy(rPages[k].nextCursor)
       /\ Len(rRequests) = Len(rPages) + 1
       /\ \A k \in 1..Len(rPages) : rRequests[k + 1].cursor = rPages[k].nextCursor
  /\ \A k \in 1..Len(rPages) :
       rPages[k].nextCursor \in { << >>, << "" >> } => (k = Len(rPages) /\ pc = "done")

\* the registry handed out the same cursor twice and then an empty string:
\* three pages were requested and the function returned
C38_Witness ==
  /\ pc = "done"
  /\ Len(rPages) = 3
  /\ rPages[1].nextCursor = << CursorOf(1) >>
  /\ rPages[2].nextCursor = << CursorOf(1) >>
  /\ rPages[3].nextCursor = << "" >>
  /\ rRequests[3].cursor = << CursorOf(1) >>
  /\ Len(rRequests) = 3

\* the registry has handed out a cursor with every page the model lets it
\* serve: one more page is requested
C38_StillRequesting ==
  /\ pc = "fetch"
  /\ Len(rPages) = MaxRegistryPages
  /\ Len(rRequests) = MaxRegistryPages + 1

----------------------------------------------------------------------------
\* C39: starting from no snapshot, every record of every snapshot the runs
\* persist has a non-empty enrichment.lastEnrichedAt: a record first seen in
\* a run, full or incremental, is not taken for fresh and goes through the
\* enrichers in that run.
C39_PersistedRecordsAreStamped ==
  /\ \A i \in 1..Len(FileRecords(serversFile)) :
       FileRecords(serversFile)[i].enrichment.lastEnrichedAt # << >>
  /\ (pc \in { "save", "savestate", "done" }) =>
       \A n \in MapNames(updatedServers) \ MapNames(existingServers) :
         /\ \E i \in 1..Len(serversToEnrich) : serversToEnrich[i].name = n
         /\ MapGet(updatedServers, n).enrichment.lastEnrichedAt # << >>

\* an incremental run has persisted a record it saw for the first time, with
\* the stamp of this run, next to a record of the run before
C39_Witness ==
  /\ pc = "done"
  /\ runs = 2
  /\ ~doFullSync
  /\ Len(existingServers) = 1
  /\ Len(FileRecords(serversFile)) = 2
  /\ \E i \in 1..2 :
       LET rec == FileRecords(serversFile)[i]
       IN /\ ~MapHas(existingServers, rec.name)
          /\ rec.enrichment.lastEnrichedAt # << >>
          /\ getTime(rec.enrichment.lastEnrichedAt) > queriedAt

----------------------------------------------------------------------------
(* src/lib/pagination.ts: the pagination state of the client *)

DEFAULT_PAGE_SIZE == 24

\* the largest number of items tried
MaxItems == 25

\* page sizes tried: 1 and two of PAGE_SIZE_OPTIONS
PageSizes == { 1, 12, DEFAULT_PAGE_SIZE }
ItemCounts == { 0, 1, 2, 12, 13, MaxItems }
PageArgs == (-1)..(MaxItems + 1)

\* Math.ceil(a / b) and Math.floor(a / b) for an integer a and b >= 1
MathCeil(a, b) == -((-a) \div b)
MathFloor(a, b) == a \div b
MathMin(a, b) == IF a < b THEN a ELSE b
MathMax(a, b) == IF a > b THEN a ELSE b

createPaginationState(totalItems, pageSize) ==
  [page |-> 1, pageSize |-> pageSize, totalItems |-> totalItems,
   totalPages |-> MathCeil(totalItems, pageSize)]

updatePaginationTotal(state, totalItems) ==
  LET totalPages == MathCeil(totalItems, state.pageSize)
  IN [state EXCEPT !.totalItems = totalItems, !.totalPages = totalPages,
                   !.page = IF state.page > totalPages THEN 1 ELSE state.page]

setPage(state, page) ==
  LET clampedPage == MathMax(1, MathMin(page, state.totalPages))
  IN [state EXCEPT !.page = clampedPage]

nextPage(state) == setPage(state, state.page + 1)

prevPage(state) == setPage(state, state.page - 1)

setPageSize(state, pageSize) ==
  LET totalPages == MathCeil(state.totalItems, pageSize)
      firstItemIndex == (state.page - 1) * state.pageSize
      newPage == MathFloor(firstItemIndex, pageSize) + 1
  IN [state EXCEPT !.pageSize = pageSize, !.totalPages = totalPages,
                   !.page = MathMin(newPage, totalPages)]

\* main.ts line 53: the state of the client starts with no items
PageInit ==
  /\ pagination = createPaginationState(0, DEFAULT_PAGE_SIZE)
  /\ now = 0
  /\ serversFile = NoFile
  /\ syncStateFile = NoFile
  /\ runs = 0
  /\ pc = "idle"
  /\ forceFull = FALSE
  /\ existingServers = << >>
  /\ syncState = << >>
  /\ doFullSync = FALSE
  /\ since = << >>
  /\ queriedAt = 0
  /\ entries = << >>
  /\ updatedServers = << >>
  /\ enrichCalled = FALSE
  /\ serversToEnrich = << >>
  /\ queue = << >>
  /\ results = << >>
  /\ startFile = NoFile
  /\ failedAt = ""
  /\ rRequests = << >>
  /\ rPages = << >>
  /\ rAll = << >>
  /\ fPc = "idle"
  /\ fMaxRetries = 0
  /\ fBaseTimeout = 0
  /\ fAttempt = 0
  /\ fTimers = { }
  /\ fRequests = << >>
  /\ fOutcomes = << >>
  /\ fSleeps = << >>
  /\ fLastError = << >>
  /\ fResult = << >>
  /\ fAborted = { }
  /\ fCancels = << >>
  /\ fSibling = "pending"
  /\ cPc = "idle"
  /\ cNow = 0
  /\ cServers = << >>
  /\ cOptions = << >>
  /\ cQueue = << >>
  /\ cResults = << >>
  /\ cTrace = << >>
  /\ cRun = 0
  /\ cFirst = << >>
  /\ sPc = "idle"
  /\ sEnricher = ""
  /\ sServer = << >>
  /\ sRequests = << >>
  /\ sResult = << >>
  /\ kPc = "idle"
  /\ kServer = << >>
  /\ kResult = << >>
  /\ kPrev = << >>
  /\ pPc = "idle"
  /\ pNow = 0
  /\ pServers = << >>
  /\ pOptions = << >>
  /\ pQueue = << >>
  /\ pFlight = << >>
  /\ pResults = << >>
  /\ pEvents = << >>
  /\ pWake = 0

PageCreate ==
  /\ \E totalItems \in ItemCounts, pageSize \in PageSizes :
       pagination' = createPaginationState(totalItems, pageSize)
  /\ UNCHANGED notPageVars

\* main.ts line 216: the filters gave another number of records
PageUpdateTotal ==
  /\ \E totalItems \in ItemCounts :
       pagination' = updatePaginationTotal(pagination, totalItems)
  /\ UNCHANGED notPageVars

\* main.ts lines 164, 226, 249: a page is asked for
PageSet ==
  /\ \E page \in PageArgs : pagination' = setPage(pagination, page)
  /\ UNCHANGED notPageVars

PageNext ==
  /\ pagination' = nextPage(pagination)
  /\ UNCHANGED notPageVars

PagePrev ==
  /\ pagination' = prevPage(pagination)
  /\ UNCHANGED notPageVars

PageSetSize ==
  /\ \E pageSize \in PageSizes : pagination' = setPageSize(pagination, pageSize)
  /\ UNCHANGED notPageVars

PaginationNext ==
  \/ PageCreate
  \/ PageUpdateTotal
  \/ PageSet
  \/ PageNext
  \/ PagePrev
  \/ PageSetSize

SpecPage == PageInit /\ [][PaginationNext]_vars

----------------------------------------------------------------------------
\* C40: after any sequence of createPaginationState, updatePaginationTotal,
\* setPage, nextPage, prevPage and setPageSize with pageSize >= 1 and
\* totalItems >= 0, 1 <= page <= max(1, totalPages) and
\* totalPages = ceil(totalItems / pageSize).
C40_PaginationInvariant ==
  /\ 1 <= pagination.page
  /\ pagination.page <= MathMax(1, pagination.totalPages)
  /\ pagination.totalPages * pagination.pageSize >= pagination.totalItems
  /\ (pagination.totalPages - 1) * pagination.pageSize < pagination.totalItems
       \/ pagination.totalPages = 0

\* what does hold: totalPages is the ceiling and the page is not above
\* max(1, totalPages)
C40_TotalPagesAndUpperBound ==
  /\ pagination.page <= MathMax(1, pagination.totalPages)
  /\ pagination.totalPages * pagination.pageSize >= pagination.totalItems
  /\ (pagination.totalPages - 1) * pagination.pageSize < pagination.totalItems
       \/ pagination.totalPages = 0
  /\ pagination.pageSize >= 1 /\ pagination.totalItems >= 0

\* the page size of an empty list was changed: the page is 0
C40_PageZero ==
  /\ pagination.totalItems = 0
  /\ pagination.totalPages = 0
  /\ pagination.page = 0

\* and stays below 1 when the list gets items
C40_PageZeroWithItems ==
  /\ pagination.totalItems > 0
  /\ pagination.page < 1

====
